---------------------------- MODULE Spec2Model ----------------------------
(***************************************************************************)
(* Exchange connectivity core of Crypto-navigate                           *)
(* (src/services/binanceWebSocket.ts, class BinanceWebSocket).             *)
(*                                                                         *)
(* The class is a singleton living on one JavaScript thread: every handler *)
(* (public method up to its first real suspension, timer callback, socket  *)
(* event, settled fetch with the promise continuations chained behind it)  *)
(* runs to completion, so each is one action.  Date.now() is the variable  *)
(* `now`, advanced only by Tick.                                           *)
(***************************************************************************)
EXTENDS Integers, Sequences, FiniteSets, TLC

(***************************************************************************)
(* Program constants (values as in the source, milliseconds).              *)
(***************************************************************************)
REQUEST_WINDOW_MS == 60000
twelveHoursMs == 43200000
maxWaitTime == 30000
cacheTtlMs == 60000

(***************************************************************************)
(* The rate budget, 600 requests a minute less a buffer of 200 in the      *)
(* source, is divided by RateScale so that a few requests fill the window  *)
(* (3 - 1 = 2 admissible requests); the margin of 10 in wait()'s eviction  *)
(* test is scaled with it, rounded up.                                     *)
(***************************************************************************)
RateScale == 200

MAX_REQUESTS_PER_MINUTE == 600 \div RateScale

RATE_LIMIT_BUFFER == 200 \div RateScale

evictMargin == (10 + RateScale - 1) \div RateScale

(***************************************************************************)
(* Bounds of the model.                                                    *)
(***************************************************************************)
MaxMs == 1              \* single milliseconds the clock may advance by
MaxReq == 2             \* REST calls under way at once
MaxSock == 2            \* sockets not yet closed and forgotten at once
MaxBanAhead == 1        \* a venue ban timestamp lies 1..MaxBanAhead ms ahead
MaxData == 2            \* distinct response payloads
MaxPings == 2           \* ping intervals running at once
MaxFrames == 2          \* inbound frames received
MaxTimers == 2          \* reconnect timers pending at once

VARIABLES
    now,                \* Date.now()
    banInfo,            \* this.banInfo
    storage,            \* localStorage[BAN_CHECK_STORAGE_KEY]
    creds,              \* authService.getApiCredentials() # null
    requestTimestamps,  \* this.requestTimestamps
    pendingRequests,    \* this.pendingRequests: key -> number of waiters, or absent
    accountInfoCache,   \* this.accountInfoCache
    orderHistoryCache,  \* this.orderHistoryCache
    req,                \* the REST calls under way and where each one stands
    ws,                 \* this.ws: the socket held, 0 for null
    sock,               \* readyState of every socket created ("none": not yet)
    isConnecting,       \* this.isConnecting
    reconnectAttempts,  \* this.reconnectAttempts
    timers,             \* the pending timers of handleReconnect, by kind
    pingInterval,       \* this.pingInterval # null
    pings,              \* the ping intervals running
    listenKey,          \* this.listenKey, 0 for null
    listenKeyInterval,  \* this.listenKeyInterval # null
    subscribers,        \* subscribers, klineSubscribers, depthSubscribers
    accountSubscribers, \* this.accountSubscribers
    closedByCaller,     \* disconnect() was the caller's last word on the session
    frames,             \* the inbound frames received so far (observation only)
    got,                \* per listener, the frames its callback was called with
    ev                  \* what the last handler did (observation only)

restVars == <<banInfo, storage, requestTimestamps, pendingRequests,
              accountInfoCache, orderHistoryCache, req>>

connVars == <<ws, sock, isConnecting, reconnectAttempts, timers, pingInterval, pings,
              listenKey, listenKeyInterval, subscribers, accountSubscribers,
              closedByCaller>>

logVars == <<frames, got>>

vars == <<now, creds, restVars, connVars, logVars, ev>>

Reqs == 1..MaxReq

Socks == 1..MaxSock

(***************************************************************************)
(* BanGuard                                                                *)
(***************************************************************************)
NoBan == [isBanned |-> FALSE, banUntil |-> 0]

NoEntry == [present |-> FALSE, isBanned |-> FALSE, banUntil |-> 0]

Entry(b) == [present |-> TRUE, isBanned |-> b.isBanned, banUntil |-> b.banUntil]

\* A guard value g pairs the in-memory ban info with the persisted entry.
Guard(info, stored) == [info |-> info, stored |-> stored]

resetBanInfo(g) == Guard(NoBan, Entry(NoBan))

\* loadBanInfo: the constructor reads the persisted entry, if any, and drops
\* an expired ban.
loadBanInfo(stored, t) ==
    IF ~stored.present
    THEN Guard(NoBan, stored)
    ELSE LET loaded == [isBanned |-> stored.isBanned, banUntil |-> stored.banUntil]
         IN  IF loaded.isBanned /\ t > loaded.banUntil
             THEN resetBanInfo(Guard(loaded, stored))
             ELSE Guard(loaded, stored)

\* A variant that lets the ban lapse one millisecond early.
checkIfBanned_early(g, t) == g.info.isBanned /\ t < g.info.banUntil

\* checkIfBanned: the value it returns ...
checkIfBanned(g, t) == ~(~g.info.isBanned \/ t > g.info.banUntil)

\* A variant that reports an expired ban as over but keeps the record.
checkIfBannedReset_keep(g, t) == g

\* ... and the state it leaves (an expired ban is reset, in memory and on disk).
checkIfBannedReset(g, t) ==
    IF (~g.info.isBanned \/ t > g.info.banUntil) /\ g.info.isBanned
    THEN resetBanInfo(g)
    ELSE g

\* A variant that does not write the entry.
setBanned_memoryOnly(g, banUntilTimestamp) ==
    Guard([isBanned |-> TRUE, banUntil |-> banUntilTimestamp], g.stored)

setBanned(g, banUntilTimestamp) ==
    LET b == [isBanned |-> TRUE, banUntil |-> banUntilTimestamp]
    IN  Guard(b, Entry(b))


\* An error, by what the guards of the code look for in its message:
\* banT   the T of "IP(...) banned until T" (0: the pattern is absent),
\* m418   the message includes "418",
\* mBanned the lower-cased message includes "banned",
\* mRate  the message includes "rate limit",
\* mFatal the message includes "Invalid API-key", "Signature" or "Parameter".
Err(kind, banT, m418, mBanned, mRate, mFatal) ==
    [kind |-> kind, banT |-> banT, m418 |-> m418, mBanned |-> mBanned,
     mRate |-> mRate, mFatal |-> mFatal]

NoErr == Err("none", 0, FALSE, FALSE, FALSE, FALSE)
\* 'API credentials not found'
ErrCreds == Err("creds", 0, FALSE, FALSE, FALSE, FALSE)
\* 'API requests are blocked due to Binance IP ban until <date>'
ErrBanGate == Err("banned", 0, FALSE, FALSE, FALSE, FALSE)
\* 'Timeout waiting for rate limit window (n/600 requests in window)'
ErrRateTimeout == Err("rateTimeout", 0, FALSE, FALSE, TRUE, FALSE)
\* 'Request timed out after 30 seconds'
ErrTimeout == Err("timeout", 0, FALSE, FALSE, FALSE, FALSE)
\* 'Failed to fetch'
ErrNet == Err("network", 0, FALSE, FALSE, FALSE, FALSE)
\* 'No internet connection available'
ErrOffline == Err("offline", 0, FALSE, FALSE, FALSE, FALSE)
\* 'Invalid order parameters', 'Price is required for LIMIT orders'
ErrParams == Err("params", 0, FALSE, FALSE, FALSE, FALSE)
\* `Request failed: ${status} ${statusText} - ${errorText}`
ErrHttp(resp) ==
    Err("http", resp.banT, resp.status = 418 \/ resp.says418, resp.saysBanned, FALSE,
        resp.saysFatal)

\* A variant that looks for "418" and "banned" before the timestamp.
detectBanFromError_defaultFirst(g, error, t) ==
    IF error.m418 \/ error.mBanned
    THEN setBanned(g, t + twelveHoursMs)
    ELSE IF error.banT # 0
         THEN setBanned(g, error.banT)
         ELSE g

detectBanFromError(g, error, t) ==
    IF error.banT # 0
    THEN setBanned(g, error.banT)
    ELSE IF error.m418 \/ error.mBanned
         THEN setBanned(g, t + twelveHoursMs)
         ELSE g

(***************************************************************************)
(* RateLimiter                                                             *)
(***************************************************************************)
Prune(ts, t) == SelectSeq(ts, LAMBDA x : t - x < REQUEST_WINDOW_MS)

\* A variant that admits up to the capacity less the buffer, inclusive.
canMakeRequest_atLimit(ts, t) ==
    Len(Prune(ts, t)) <= MAX_REQUESTS_PER_MINUTE - RATE_LIMIT_BUFFER

\* canMakeRequest, called where the ban has just been checked: the pruned
\* window and whether a slot is free.
canMakeRequest(ts, t) == Len(Prune(ts, t)) < MAX_REQUESTS_PER_MINUTE - RATE_LIMIT_BUFFER


\* The shared state a REST call works on: BanGuard, the rate window and the
\* pending-request map (key -> -1 when absent, else the number of waiters).
Core(g, ts, pend) == [g |-> g, ts |-> ts, pend |-> pend]

\* waitForRateLimit up to its first suspension.
waitForRateLimit(s, t) ==
    IF checkIfBanned(s.g, t)
    THEN [s |-> s, out |-> "banned"]
    ELSE LET g1 == checkIfBannedReset(s.g, t)
         IN  IF canMakeRequest(s.ts, t)
             THEN [s |-> Core(g1, Append(Prune(s.ts, t), t), s.pend), out |-> "admitted"]
             ELSE [s |-> Core(g1, Prune(s.ts, t), s.pend), out |-> "wait"]

\* A variant of the eviction that does not look at how full the window is.
evictOldest_always(ts) ==
    SubSeq(SortSeq(ts, <), ((Len(ts) + 9) \div 10) + 1, Len(ts))

\* The eviction of the 10 % oldest timestamps when a wait times out.
evictOldest(ts) ==
    IF Len(ts) > MAX_REQUESTS_PER_MINUTE - RATE_LIMIT_BUFFER - evictMargin
    THEN SubSeq(SortSeq(ts, <), ((Len(ts) + 9) \div 10) + 1, Len(ts))
    ELSE ts

\* A variant of the callback that never gives up.
wait_noTimeout(s, startTime, t) ==
    IF checkIfBanned(s.g, t)
    THEN [s |-> s, out |-> "banned"]
    ELSE LET g1 == checkIfBannedReset(s.g, t)
         IN  IF canMakeRequest(s.ts, t)
             THEN [s |-> Core(g1, Append(Prune(s.ts, t), t), s.pend), out |-> "admitted"]
             ELSE [s |-> Core(g1, Prune(s.ts, t), s.pend), out |-> "wait"]

\* A variant of the callback that does not look at the ban.
wait_noBanCheck(s, startTime, t) ==
    IF t - startTime > maxWaitTime
    THEN [s |-> Core(s.g, evictOldest(s.ts), s.pend), out |-> "timeout"]
    ELSE LET g1 == checkIfBannedReset(s.g, t)
         IN  IF canMakeRequest(s.ts, t)
             THEN [s |-> Core(g1, Append(Prune(s.ts, t), t), s.pend), out |-> "admitted"]
             ELSE [s |-> Core(g1, Prune(s.ts, t), s.pend), out |-> "wait"]

\* The timer callback wait() of a suspended waitForRateLimit call that began
\* at startTime.
wait(s, startTime, t) ==
    IF t - startTime > maxWaitTime
    THEN [s |-> Core(s.g, evictOldest(s.ts), s.pend), out |-> "timeout"]
    ELSE IF checkIfBanned(s.g, t)
         THEN [s |-> s, out |-> "banned"]
         ELSE LET g1 == checkIfBannedReset(s.g, t)
              IN  IF canMakeRequest(s.ts, t)
                  THEN [s |-> Core(g1, Append(Prune(s.ts, t), t), s.pend), out |-> "admitted"]
                  ELSE [s |-> Core(g1, Prune(s.ts, t), s.pend), out |-> "wait"]

(***************************************************************************)
(* AuthenticatedRequestExecutor                                            *)
(***************************************************************************)
\* The arguments each call site passes to makeAuthenticatedRequest.
Site(key, sig, allow) == [key |-> key, sig |-> sig, allow |-> allow]

siteAccount == Site("account_info", TRUE, FALSE)
siteOrders(sym) == Site(sym, TRUE, FALSE)
siteOrder == Site("order", TRUE, FALSE)
siteLeverage == Site("leverage", TRUE, FALSE)
siteListenKey == Site("listenKey", FALSE, TRUE)
siteRefresh == Site("refreshListenKey", FALSE, FALSE)

\* What a step of a call yields: the shared state, the caches, how the call
\* stands (out), the error it throws and the payload it returns.
Res(s, cache, out, err, data) ==
    [s |-> s, cache |-> cache, out |-> out, err |-> err, data |-> data]

\* The call has registered itself as a waiter of the pending call of `key`.
Waiter(s, cache, key) ==
    Res([s EXCEPT !.pend[key] = @ + 1], cache, key, NoErr, 0)

\* A variant that passes the ban gate before it looks for the credentials.
makeAuthenticatedRequest_banFirst(s, cache, site, hasCreds, t) ==
    IF ~site.allow /\ checkIfBanned(s.g, t)
    THEN Res(s, cache, "throw", ErrBanGate, 0)
    ELSE LET g1 == IF site.allow THEN s.g ELSE checkIfBannedReset(s.g, t)
         IN  IF site.sig /\ ~hasCreds
             THEN Res(Core(g1, s.ts, s.pend), cache, "throw", ErrCreds, 0)
             ELSE IF s.pend[site.key] > 0
             THEN Waiter(Core(g1, s.ts, s.pend), cache, site.key)
             ELSE LET w == waitForRateLimit(
                               Core(g1, s.ts, [s.pend EXCEPT ![site.key] = 0]), t)
                  IN  CASE w.out = "banned" ->
                             Res([w.s EXCEPT !.pend[site.key] = -1],
                                 cache, "throw", ErrBanGate, 0)
                        [] w.out = "admitted" -> Res(w.s, cache, "net", NoErr, 0)
                        [] OTHER -> Res(w.s, cache, "rateWait", NoErr, 0)

\* makeAuthenticatedRequest from its entry to the fetch (out = "net"), to a
\* suspension in waitForRateLimit (out = "rateWait"), to the wait on a pending
\* call of the same key (out = "waiter") or to a throw.
makeAuthenticatedRequest(s, cache, site, hasCreds, t) ==
    IF site.sig /\ ~hasCreds
    THEN Res(s, cache, "throw", ErrCreds, 0)
    ELSE IF ~site.allow /\ checkIfBanned(s.g, t)
    THEN Res(s, cache, "throw", ErrBanGate, 0)
    ELSE LET g1 == IF site.allow THEN s.g ELSE checkIfBannedReset(s.g, t)
         IN  IF s.pend[site.key] > 0
             THEN Waiter(Core(g1, s.ts, s.pend), cache, site.key)
             ELSE LET w == waitForRateLimit(
                               Core(g1, s.ts, [s.pend EXCEPT ![site.key] = 0]), t)
                  IN  CASE w.out = "banned" ->
                             Res([w.s EXCEPT !.pend[site.key] = -1],
                                 cache, "throw", ErrBanGate, 0)
                        [] w.out = "admitted" -> Res(w.s, cache, "net", NoErr, 0)
                        [] OTHER -> Res(w.s, cache, "rateWait", NoErr, 0)

\* The rest of makeAuthenticatedRequest once wait() has settled the
\* suspended waitForRateLimit call.
afterWait(s, cache, site, startTime, t) ==
    LET w == wait(s, startTime, t)
    IN  CASE w.out = "timeout" ->
               Res([w.s EXCEPT !.pend[site.key] = -1], cache, "throw", ErrRateTimeout, 0)
          [] w.out = "banned" ->
               Res([w.s EXCEPT !.pend[site.key] = -1], cache, "throw", ErrBanGate, 0)
          [] w.out = "admitted" -> Res(w.s, cache, "net", NoErr, 0)
          [] OTHER -> Res(w.s, cache, "rateWait", NoErr, 0)

\* A variant that does the bookkeeping for status 418 alone.
banFromStatus_only418(g, resp, t) ==
    IF resp.kind = "http" /\ resp.status = 418 /\ resp.code1003
    THEN IF resp.banT # 0
         THEN setBanned(g, resp.banT)
         ELSE setBanned(g, t + twelveHoursMs)
    ELSE g

\* The ban bookkeeping of a 418/429 response whose JSON body has code -1003.
banFromStatus(g, resp, t) ==
    IF resp.kind = "http" /\ resp.status \in {418, 429} /\ resp.code1003
    THEN IF resp.banT # 0
         THEN setBanned(g, resp.banT)
         ELSE setBanned(g, t + twelveHoursMs)
    ELSE g

errorOf(resp) ==
    CASE resp.kind = "http" -> ErrHttp(resp)
      [] resp.kind = "timeout" -> ErrTimeout
      [] OTHER -> ErrNet

\* makeAuthenticatedRequest from the settled fetch to its return or throw.
afterFetch(s, cache, site, resp, t) ==
    IF resp.kind = "ok"
    THEN Res([s EXCEPT !.pend[site.key] = -1], cache, "ok", NoErr, resp.data)
    ELSE LET g1 == banFromStatus(s.g, resp, t)
             g2 == detectBanFromError(g1, errorOf(resp), t)
         IN  Res(Core(g2, s.ts, [s.pend EXCEPT ![site.key] = -1]),
                 cache, "throw", errorOf(resp), 0)


(***************************************************************************)
(* Call sites: getAccountInfo, getOpenPositions, getOrderHistory           *)
(***************************************************************************)
Symbols == {"all", "BTCUSDT"}

Keys == {"account_info", "open_positions", "order", "leverage", "listenKey",
         "refreshListenKey"}
            \cup Symbols

NoCache == [present |-> FALSE, data |-> 0, timestamp |-> 0]

CacheOf(data, t) == [present |-> TRUE, data |-> data, timestamp |-> t]

Caches(acct, hist) == [acct |-> acct, hist |-> hist]

Fresh(entry, t) == entry.present /\ t - entry.timestamp < cacheTtlMs

\* The catch block of getAccountInfo.
accountCatch(s, c, err, t) ==
    LET g1 == detectBanFromError(s.g, err, t)
        s2 == Core(checkIfBannedReset(g1, t), s.ts, s.pend)
    IN  IF (checkIfBanned(g1, t) \/ err.mRate) /\ c.acct.present
        THEN Res(s2, c, "fallback", NoErr, c.acct.data)
        ELSE Res(s2, c, "throw", err, 0)

\* getAccountInfo behind its await: m is what makeAuthenticatedRequest gave,
\* t0 the `now` the call took at its entry.
accountThen(m, t, t0) ==
    CASE m.out = "ok" ->
           Res(m.s, Caches(CacheOf(m.data, t0), m.cache.hist), "ok", NoErr, m.data)
      [] m.out = "throw" -> accountCatch(m.s, m.cache, m.err, t)
      [] OTHER -> m

\* A variant that, banned, hands out the placeholder whatever the cache
\* holds.
getAccountInfo_mockOnly(s, c, hasCreds, t) ==
    IF Fresh(c.acct, t)
    THEN Res(s, c, "cached", NoErr, c.acct.data)
    ELSE IF checkIfBanned(s.g, t)
    THEN Res(s, c, "mock", NoErr, 0)
    ELSE LET s1 == Core(checkIfBannedReset(s.g, t), s.ts, s.pend)
         IN  IF s1.pend["account_info"] > 0
             THEN Waiter(s1, c, "account_info")
             ELSE accountThen(
                      makeAuthenticatedRequest([s1 EXCEPT !.pend["account_info"] = 0],
                                               c, siteAccount, hasCreds, t),
                      t, t)

getAccountInfo(s, c, hasCreds, t) ==
    IF Fresh(c.acct, t)
    THEN Res(s, c, "cached", NoErr, c.acct.data)
    ELSE IF checkIfBanned(s.g, t)
    THEN IF c.acct.present
         THEN Res(s, c, "stale", NoErr, c.acct.data)
         ELSE Res(s, c, "mock", NoErr, 0)
    ELSE LET s1 == Core(checkIfBannedReset(s.g, t), s.ts, s.pend)
         IN  IF s1.pend["account_info"] > 0
             THEN Waiter(s1, c, "account_info")
             ELSE accountThen(
                      makeAuthenticatedRequest([s1 EXCEPT !.pend["account_info"] = 0],
                                               c, siteAccount, hasCreds, t),
                      t, t)

\* getOpenPositions behind the await of getAccountInfo: a is what
\* getAccountInfo gave, retried whether the one retry has been spent.  Account
\* data 0 is the empty object, which has no positions field; the mock data
\* has one.
positionsThen(a, retried, t) ==
    CASE a.out \in {"ok", "cached", "stale", "mock", "fallback"} ->
           IF a.out = "mock" \/ a.data # 0
           THEN Res([a.s EXCEPT !.pend["open_positions"] = -1], a.cache, a.out, NoErr,
                    a.data)
           ELSE Res(a.s, a.cache, "noPositions", NoErr, 0)
      [] a.out = "throw" ->
           IF a.err.mRate /\ ~retried
           THEN Res(a.s, a.cache, "backoff", a.err, 2^1 * 1000)
           ELSE LET g1 == detectBanFromError(a.s.g, a.err, t)
                IN  Res(Core(g1, a.s.ts, [a.s.pend EXCEPT !["open_positions"] = -1]),
                        a.cache, "empty", a.err, 0)
      [] OTHER -> a

getOpenPositions(s, c, hasCreds, t) ==
    IF s.pend["open_positions"] > 0
    THEN Waiter(s, c, "open_positions")
    ELSE positionsThen(
             getAccountInfo([s EXCEPT !.pend["open_positions"] = 0], c, hasCreds, t),
             FALSE, t)

\* The catch block of getOrderHistory(sym); cachedEntry is the cache entry
\* the call read at its entry.
ordersCatch(s, c, cachedEntry, err, t) ==
    LET s1 == Core(detectBanFromError(s.g, err, t), s.ts, s.pend)
    IN  IF cachedEntry.present
        THEN Res(s1, c, "fallback", NoErr, cachedEntry.data)
        ELSE Res(s1, c, "throw", err, 0)

ordersThen(m, sym, cachedEntry, t, t0) ==
    CASE m.out = "ok" ->
           Res(m.s, Caches(m.cache.acct, [m.cache.hist EXCEPT ![sym] = CacheOf(m.data, t0)]),
               "ok", NoErr, m.data)
      [] m.out = "throw" -> ordersCatch(m.s, m.cache, cachedEntry, m.err, t)
      [] OTHER -> m

\* A variant that keeps one cache entry for every symbol.
getOrderHistory_oneKey(s, c, sym, hasCreds, t) ==
    IF Fresh(c.hist["all"], t)
    THEN Res(s, c, "cached", NoErr, c.hist["all"].data)
    ELSE IF checkIfBanned(s.g, t)
    THEN IF c.hist["all"].present
         THEN Res(s, c, "stale", NoErr, c.hist["all"].data)
         ELSE Res(s, c, "empty", NoErr, 0)
    ELSE ordersThen(
             makeAuthenticatedRequest(Core(checkIfBannedReset(s.g, t), s.ts, s.pend),
                                      c, siteOrders(sym), hasCreds, t),
             sym, c.hist["all"], t, t)

getOrderHistory(s, c, sym, hasCreds, t) ==
    IF Fresh(c.hist[sym], t)
    THEN Res(s, c, "cached", NoErr, c.hist[sym].data)
    ELSE IF checkIfBanned(s.g, t)
    THEN IF c.hist[sym].present
         THEN Res(s, c, "stale", NoErr, c.hist[sym].data)
         ELSE Res(s, c, "empty", NoErr, 0)
    ELSE ordersThen(
             makeAuthenticatedRequest(Core(checkIfBannedReset(s.g, t), s.ts, s.pend),
                                      c, siteOrders(sym), hasCreds, t),
             sym, c.hist[sym], t, t)

(***************************************************************************)
(* OrderGateway: placeOrder                                                *)
(***************************************************************************)
maxAttempts == 3

\* A variant that retries whatever the error says.
orderThen_retryFatal(m, attempts) ==
    CASE m.out = "throw" ->
           IF attempts >= maxAttempts
           THEN m
           ELSE Res(m.s, m.cache, "backoff", m.err, 2^attempts * 1000)
      [] OTHER -> m

\* A variant that retries one more time.
orderThen_fourth(m, attempts) ==
    CASE m.out = "throw" ->
           IF attempts > maxAttempts \/ m.err.mFatal \/ m.err.mBanned
           THEN m
           ELSE Res(m.s, m.cache, "backoff", m.err, 2^attempts * 1000)
      [] OTHER -> m

\* The catch block of the retry loop: attempts counts the failures so far,
\* this one included; a call that sleeps before a retry yields the delay.
orderThen(m, attempts) ==
    CASE m.out = "throw" ->
           IF attempts >= maxAttempts \/ m.err.mFatal \/ m.err.mBanned
           THEN m
           ELSE Res(m.s, m.cache, "backoff", m.err, 2^attempts * 1000)
      [] OTHER -> m

\* The first pass of the retry loop.
orderFirst(s, c, hasCreds, t) ==
    LET m == makeAuthenticatedRequest(s, c, siteOrder, hasCreds, t)
    IN  orderThen(m, IF m.out = "throw" THEN 1 ELSE 0)

\* A variant in which a failure of setLeverage ends placeOrder.
leverageThen_abort(m, hasCreds, t) ==
    IF m.out = "ok" THEN orderFirst(m.s, m.cache, hasCreds, t) ELSE m

\* placeOrder behind the await of setLeverage: m is what its
\* makeAuthenticatedRequest gave; a throw is caught and logged.
leverageThen(m, hasCreds, t) ==
    IF m.out \in {"ok", "throw"} THEN orderFirst(m.s, m.cache, hasCreds, t) ELSE m

\* How a placeOrder call is made: with the browser off line, with a missing
\* or non-positive quantity or (type LIMIT) price, with a leverage, or with
\* valid parameters and no leverage.
OrderArgs == {"offline", "invalid", "leverage", "plain"}

\* placeOrder from the checks behind connect() to its first suspension or
\* its throw.
placeOrder(s, c, args, hasCreds, t) ==
    CASE args = "offline" -> Res(s, c, "throw", ErrOffline, 0)
      [] args = "invalid" -> Res(s, c, "throw", ErrParams, 0)
      [] args = "leverage" ->
           leverageThen(makeAuthenticatedRequest(s, c, siteLeverage, hasCreds, t),
                        hasCreds, t)
      [] OTHER -> orderFirst(s, c, hasCreds, t)

\* The api of the request a placeOrder call stands at after that: the
\* leverage request while it is under way, else the order.
placeOrderApi(s, c, args, hasCreds, t) ==
    IF args = "leverage"
         /\ makeAuthenticatedRequest(s, c, siteLeverage, hasCreds, t).out
                \notin {"ok", "throw"}
    THEN "leverage"
    ELSE "order"


(***************************************************************************)
(* StreamSession                                                           *)
(***************************************************************************)
maxReconnectAttempts == 5

reconnectInterval == 10000

\* The delay of the timer handleReconnect sets once the attempts are used up.
cooldownDelay == 60000

\* The three public stream families, each with its own listener map
\* (subscribers, klineSubscribers, depthSubscribers); one key per family.
Kinds == {"ticker", "kline", "depth"}

Listeners == {"L1", "L2"}

NoTimers == [connect |-> 0, cooldown |-> 0]

\* The session a handler works on: the fields of the instance, the frames
\* the handler has sent so far, and the delays of the reconnect timer (delay)
\* and of the cooldown timer (cooldown) it has set.
K ==
    [ws |-> ws, sock |-> sock, isConnecting |-> isConnecting,
     reconnectAttempts |-> reconnectAttempts, timers |-> timers,
     pingInterval |-> pingInterval, pings |-> pings,
     listenKey |-> listenKey, listenKeyInterval |-> listenKeyInterval,
     subscribers |-> subscribers, accountSubscribers |-> accountSubscribers,
     closedByCaller |-> closedByCaller, sent |-> <<>>, delay |-> 0, cooldown |-> 0]

\* this.ws.readyState === WebSocket.OPEN (the getter isConnected)
isOpen(k) == k.ws # 0 /\ k.sock[k.ws] = "OPEN"

isConnected == isOpen(K)

\* The socket slots free for a new socket: never used, or closed and no
\* longer held; connect() takes the lowest.
Unused(k) == {w \in Socks : k.sock[w] = "none" \/ (k.sock[w] = "CLOSED" /\ k.ws # w)}

NewSock(k) == CHOOSE w \in Unused(k) : \A v \in Unused(k) : w <= v

\* connect(): nothing when a connection is in progress or established, else
\* a new socket, held in this.ws, with isConnecting set.
connect(k) ==
    IF k.isConnecting \/ (k.ws # 0 /\ k.sock[k.ws] = "OPEN")
    THEN k
    ELSE [k EXCEPT !.ws = NewSock(k), !.sock[NewSock(k)] = "CONNECTING",
                   !.isConnecting = TRUE]

\* connect() can run: it is a no-op or a socket slot is free.
CanConnect(k) ==
    k.isConnecting \/ (k.ws # 0 /\ k.sock[k.ws] = "OPEN") \/ Unused(k) # {}

Frame(method, stream) == [method |-> method, stream |-> stream]

sendSubscription(k, stream) ==
    IF ~isOpen(k) THEN k ELSE [k EXCEPT !.sent = Append(@, Frame("SUBSCRIBE", stream))]

sendUnsubscription(k, stream) ==
    IF ~isOpen(k) THEN k ELSE [k EXCEPT !.sent = Append(@, Frame("UNSUBSCRIBE", stream))]

\* A variant that sends the frame for every listener, not for the first.
subscribe_always(k, kind, callback) ==
    LET k1 == IF ~isOpen(k) THEN connect(k) ELSE k
        k2 == IF isOpen(k1) THEN sendSubscription(k1, kind) ELSE k1
    IN  [k2 EXCEPT !.subscribers[kind] = @ \cup {callback}]

\* subscribe, subscribeKlines, subscribeDepth: the same code over the
\* family's own map (a key is in the map exactly when it has listeners).
subscribe(k, kind, callback) ==
    LET k1 == IF ~isOpen(k) THEN connect(k) ELSE k
        k2 == IF k1.subscribers[kind] = {} /\ isOpen(k1)
              THEN sendSubscription(k1, kind)
              ELSE k1
    IN  [k2 EXCEPT !.subscribers[kind] = @ \cup {callback}]

\* unsubscribe, unsubscribeKlines, unsubscribeDepth.
unsubscribe(k, kind, callback) ==
    IF k.subscribers[kind] = {}
    THEN k
    ELSE LET k1 == [k EXCEPT !.subscribers[kind] = @ \ {callback}]
         IN  IF k1.subscribers[kind] = {} /\ isOpen(k1)
             THEN sendUnsubscription(k1, kind)
             ELSE k1

subscribeAccount(k, callback) ==
    LET k1 == [k EXCEPT !.accountSubscribers = @ \cup {callback}]
    IN  IF ~isOpen(k1)
        THEN connect(k1)
        ELSE IF k1.listenKey # 0
             THEN sendSubscription(k1, "listenKey")
             ELSE k1

unsubscribeAccount(k, callback) ==
    LET k1 == [k EXCEPT !.accountSubscribers = @ \ {callback}]
    IN  IF k1.accountSubscribers = {} /\ k1.listenKey # 0 /\ isOpen(k1)
        THEN sendUnsubscription(k1, "listenKey")
        ELSE k1

\* A variant that gives up once the attempts are used up.
handleReconnect_giveUp(k) ==
    IF k.reconnectAttempts < maxReconnectAttempts
    THEN [k EXCEPT !.delay = reconnectInterval * 2^(k.reconnectAttempts),
                   !.reconnectAttempts = @ + 1, !.timers.connect = @ + 1]
    ELSE k

\* A variant that computes the delay from the incremented counter.
handleReconnect_afterIncrement(k) ==
    IF k.reconnectAttempts < maxReconnectAttempts
    THEN [k EXCEPT !.delay = reconnectInterval * 2^(k.reconnectAttempts + 1),
                   !.reconnectAttempts = @ + 1, !.timers.connect = @ + 1]
    ELSE [k EXCEPT !.cooldown = cooldownDelay, !.timers.cooldown = @ + 1]

handleReconnect(k) ==
    IF k.reconnectAttempts < maxReconnectAttempts
    THEN [k EXCEPT !.delay = reconnectInterval * 2^(k.reconnectAttempts),
                   !.reconnectAttempts = @ + 1, !.timers.connect = @ + 1]
    ELSE [k EXCEPT !.cooldown = cooldownDelay, !.timers.cooldown = @ + 1]

resubscribeKind(k, kind) ==
    IF k.subscribers[kind] # {} THEN sendSubscription(k, kind) ELSE k

resubscribeAll(k) ==
    IF ~isOpen(k)
    THEN k
    ELSE LET k3 == resubscribeKind(
                       resubscribeKind(resubscribeKind(k, "ticker"), "kline"), "depth")
         IN  IF k3.listenKey # 0 /\ k3.accountSubscribers # {}
             THEN sendSubscription(k3, "listenKey")
             ELSE k3

\* setInterval starts a timer and the handle of the last one is kept.
startPingInterval(k) == [k EXCEPT !.pingInterval = TRUE, !.pings = @ + 1]

stopPingInterval(k) ==
    IF k.pingInterval THEN [k EXCEPT !.pingInterval = FALSE, !.pings = @ - 1] ELSE k

\* ws.close() takes a connecting or open socket to CLOSING.
close(k) ==
    IF k.sock[k.ws] \in {"CONNECTING", "OPEN"}
    THEN [k EXCEPT !.sock[k.ws] = "CLOSING"]
    ELSE k

disconnect(k) ==
    LET k1 == IF k.ws # 0 THEN [close(k) EXCEPT !.ws = 0] ELSE k
    IN  [stopPingInterval(k1) EXCEPT !.listenKeyInterval = FALSE]

\* ws.onerror and ws.onclose of a socket that closes (onerror, when it
\* runs, only clears isConnecting, which onclose clears as well).
onclose(k) ==
    handleReconnect([stopPingInterval(k) EXCEPT !.isConnecting = FALSE])

\* ws.onopen up to the call of getListenKey.
onopen(k) ==
    resubscribeAll([startPingInterval(k) EXCEPT !.reconnectAttempts = 0,
                                                !.isConnecting = FALSE])

\* getListenKey up to its return or its await: out is "null" (banned),
\* "held" (the key it has) or what makeAuthenticatedRequest gave.
getListenKey(held, s, c, hasCreds, t) ==
    IF checkIfBanned(s.g, t)
    THEN Res(s, c, "null", NoErr, 0)
    ELSE LET s1 == Core(checkIfBannedReset(s.g, t), s.ts, s.pend)
         IN  IF held # 0
             THEN Res(s1, c, "held", NoErr, held)
             ELSE makeAuthenticatedRequest(s1, c, siteListenKey, hasCreds, t)

\* getListenKey behind its await (m is what makeAuthenticatedRequest gave):
\* the REST side ...
listenKeyCatch(m, t) ==
    IF m.out = "throw"
    THEN Res(Core(detectBanFromError(m.s.g, m.err, t), m.s.ts, m.s.pend),
             m.cache, "null", m.err, 0)
    ELSE m

\* ... and the session side, with the .then of onopen when the call came
\* from there (startListenKeyRefresh replaces the interval it holds).
listenKeyThen(k, m, fromOpen) ==
    LET k1 == IF m.out = "ok"
              THEN [k EXCEPT !.listenKey = m.data, !.listenKeyInterval = TRUE]
              ELSE k
    IN  IF fromOpen /\ m.out \in {"ok", "held"}
        THEN sendSubscription(k1, "listenKey")
        ELSE k1

(***************************************************************************)
(* Inbound frames: ws.onmessage and handleMessage                          *)
(***************************************************************************)
\* An inbound frame: whether its text is JSON (json), whether its id is
\* 'pong', its event type e, its symbol s ("sym": the symbol of the
\* family's key, "other": another one, "none": no such field), its k.i
\* ("int": the interval of the kline key, "other": another one, "none": no
\* field k), and whether it has the value fields the handler reads (vals).
NoFrame ==
    [json |-> TRUE, pong |-> FALSE, e |-> "none", s |-> "none", k |-> "none",
     vals |-> FALSE]

Events == {"24hrTicker", "kline", "depthUpdate", "ACCOUNT_UPDATE",
           "ORDER_TRADE_UPDATE", "none"}

Frames ==
    {[NoFrame EXCEPT !.json = FALSE]}
    \cup {f \in [json : {TRUE}, pong : {FALSE}, e : Events,
                 s : {"sym", "other", "none"}, k : {"int", "other", "none"},
                 vals : BOOLEAN] :
             /\ f.k # "none" => f.e = "kline"
             /\ f.vals => \/ f.e = "24hrTicker" /\ f.s = "sym"
                          \/ f.e = "kline" /\ f.s = "sym" /\ f.k = "int"
             /\ f.e \in {"ACCOUNT_UPDATE", "ORDER_TRADE_UPDATE", "none"} => f.s = "none"}
    \cup {[NoFrame EXCEPT !.pong = TRUE],
          [NoFrame EXCEPT !.pong = TRUE, !.e = "24hrTicker", !.s = "sym", !.vals = TRUE]}

\* What handleMessage comes to: the key it dispatched to, the listeners it
\* called and how it ended.
Dispatch(key, invoked, out) == [key |-> key, invoked |-> invoked, out |-> out]

\* A variant of the fan-out that stops at a callback that throws.
fanOut_abort(listeners, bad) ==
    IF listeners \cap bad = {} THEN listeners ELSE listeners \cap bad

\* callbacks.forEach with its try/catch around each call: the callbacks
\* called, `bad` being those that throw.
fanOut(listeners, bad) == listeners

\* The branches of handleMessage behind its test of the id.
dispatch(k, f, bad) ==
    CASE f.e = "24hrTicker" ->
           IF f.s = "sym" /\ k.subscribers["ticker"] # {}
           THEN Dispatch("ticker", fanOut(k.subscribers["ticker"], bad), "dispatched")
           ELSE Dispatch("-", {}, "ignored")
      [] f.e = "kline" ->
           IF f.k = "none"
           THEN Dispatch("-", {}, "typeError")
           ELSE IF f.s = "sym" /\ f.k = "int" /\ k.subscribers["kline"] # {}
                THEN Dispatch("kline", fanOut(k.subscribers["kline"], bad), "dispatched")
                ELSE Dispatch("-", {}, "ignored")
      [] f.e = "depthUpdate" ->
           IF f.s = "sym" /\ k.subscribers["depth"] # {}
           THEN Dispatch("depth", fanOut(k.subscribers["depth"], bad), "dispatched")
           ELSE Dispatch("-", {}, "ignored")
      [] f.e \in {"ACCOUNT_UPDATE", "ORDER_TRADE_UPDATE"} ->
           Dispatch("account", fanOut(k.accountSubscribers, bad), "dispatched")
      [] OTHER -> Dispatch("-", {}, "ignored")

\* A variant that calls the ticker listeners whatever the symbol.
handleMessage_anySymbol(k, f, bad) ==
    IF f.pong
    THEN Dispatch("-", {}, "pong")
    ELSE IF f.e = "24hrTicker"
         THEN Dispatch("ticker", fanOut(k.subscribers["ticker"], bad), "dispatched")
         ELSE dispatch(k, f, bad)

\* A variant that does not look at the id.
handleMessage_noPong(k, f, bad) == dispatch(k, f, bad)

\* handleMessage(data) for a frame that JSON.parse accepted.
handleMessage(k, f, bad) ==
    IF f.pong THEN Dispatch("-", {}, "pong") ELSE dispatch(k, f, bad)

\* ws.onmessage: JSON.parse and handleMessage inside one try/catch.
onmessage(k, f, bad) ==
    IF ~f.json THEN Dispatch("-", {}, "parseError") ELSE handleMessage(k, f, bad)

(***************************************************************************)
(* The REST calls under way                                                *)
(***************************************************************************)
\* pc: "idle" (no call on this slot), "rateWait" (suspended in
\* waitForRateLimit), "inflight" (fetch issued), "waiter" (waits on the
\* pending call of wkey), "backoff" (sleeps before a retry).
\* api: "account", "positions", "orders", "order", "listenKey" (getListenKey
\* called by onopen), "listenKeyRetry" (getListenKey called after a failed
\* refresh), "refresh" (the PUT of the refresh interval).
\* n: the failed attempts of placeOrder, the retries of getOpenPositions.
\* cachedEntry: the cache entry getOrderHistory read at its entry.
Call(pc, api, sym, startTime, t0, n, wkey) ==
    [pc |-> pc, api |-> api, sym |-> sym, startTime |-> startTime, t0 |-> t0,
     n |-> n, wkey |-> wkey, cachedEntry |-> NoCache]

Idle == Call("idle", "-", "-", 0, 0, 0, "-")

siteOf(rq) ==
    CASE rq.api \in {"account", "positions"} -> siteAccount
      [] rq.api = "orders" -> siteOrders(rq.sym)
      [] rq.api = "order" -> siteOrder
      [] rq.api = "leverage" -> siteLeverage
      [] rq.api \in {"listenKey", "listenKeyRetry"} -> siteListenKey
      [] OTHER -> siteRefresh

\* The catch block of the refresh interval: the key is dropped and a new
\* one is asked for.
refreshCatch(m, hasCreds, t) ==
    IF m.out = "throw"
    THEN listenKeyCatch(getListenKey(0, m.s, m.cache, hasCreds, t), t)
    ELSE m

\* The caller's code behind the await of makeAuthenticatedRequest: the REST
\* side ...
layerThen(rq, m, hasCreds, t) ==
    CASE rq.api = "account" -> accountThen(m, t, rq.t0)
      [] rq.api = "positions" -> positionsThen(accountThen(m, t, rq.t0), rq.n > 0, t)
      [] rq.api = "orders" -> ordersThen(m, rq.sym, rq.cachedEntry, t, rq.t0)
      [] rq.api = "order" -> orderThen(m, rq.n + 1)
      [] rq.api = "leverage" -> leverageThen(m, hasCreds, t)
      [] rq.api \in {"listenKey", "listenKeyRetry"} -> listenKeyCatch(m, t)
      [] OTHER -> refreshCatch(m, hasCreds, t)

\* ... the session side ...
sessionThen(k, rq, m) ==
    CASE rq.api = "listenKey" -> listenKeyThen(k, m, TRUE)
      [] rq.api = "listenKeyRetry" -> listenKeyThen(k, m, FALSE)
      [] rq.api = "refresh" /\ m.out = "throw" -> [k EXCEPT !.listenKey = 0]
      [] OTHER -> k

\* ... and the call the slot holds from then on.
callThen(rq, m, res) ==
    [rq EXCEPT !.api = CASE rq.api = "refresh" /\ m.out = "throw" -> "listenKeyRetry"
                         [] rq.api = "leverage" /\ m.out \in {"ok", "throw"} -> "order"
                         [] OTHER -> @,
               !.n = IF (rq.api = "order" /\ m.out = "throw")
                          \/ (rq.api = "positions" /\ res.out = "backoff")
                          \/ (rq.api = "leverage" /\ res.out \in {"backoff", "throw"})
                     THEN @ + 1 ELSE @]

\* How the setLeverage call of placeOrder ended in the handler, if it did.
leverageNote(rq, m) ==
    CASE rq.api = "leverage" /\ m.out = "throw" -> "leverageFailed"
      [] rq.api = "leverage" /\ m.out = "ok" -> "leverageSet"
      [] OTHER -> "-"

\* What the handler of a call under way notes as its key: the symbol of a
\* getOrderHistory call, else how the setLeverage call ended.
keyNote(rq, m) == IF rq.api = "orders" THEN rq.sym ELSE leverageNote(rq, m)

NoResp ==
    [kind |-> "none", data |-> 0, status |-> 0, code1003 |-> FALSE, banT |-> 0,
     saysBanned |-> FALSE, saysFatal |-> FALSE, says418 |-> FALSE]

\* What the venue or the network may answer at time t to the fetch of a call
\* of `api`.  A ban timestamp the venue names lies ahead of the clock and
\* comes in the venue's sentence 'IP(...) banned until T'; a body with code
\* -1003 has its msg; the words only placeOrder looks for are drawn for its
\* calls alone, and a body in which the digits 418 stand is the answer of
\* RespondDigits.
Responses(t, api) ==
    {[NoResp EXCEPT !.kind = "ok", !.status = 200, !.data = d] : d \in 1..MaxData}
    \cup {[NoResp EXCEPT !.kind = "timeout"], [NoResp EXCEPT !.kind = "network"]}
    \cup {r \in [kind : {"http"}, data : {0}, status : {400, 418, 429},
                 code1003 : BOOLEAN, banT : {0} \cup (t + 1 .. t + MaxBanAhead),
                 saysBanned : BOOLEAN, saysFatal : BOOLEAN, says418 : {FALSE}] :
             /\ r.banT # 0 => r.saysBanned
             /\ r.saysFatal => api = "order"}

CountOf(ts, t) == Cardinality({i \in 1..Len(ts) : ts[i] = t})

S == Core(Guard(banInfo, storage), requestTimestamps, pendingRequests)

C == Caches(accountInfoCache, orderHistoryCache)

\* What the last handler did: which handler (op), for a call of which api
\* or for which stream key (key; for placeOrder, how it was called and how
\* its setLeverage call ended; for getOrderHistory, its symbol), how the call stands after it (out), the
\* failed attempts or retries the call counts (n), the delay of the sleep it
\* began (wait), what the callback of a suspended waitForRateLimit call came
\* to (waited), the
\* error that ended its request (err), the fetches it issued (net), the
\* rate-window slots it took (slots), whether BanGuard held an unexpired ban
\* (banned) or an expired one (expired) when it began, the response it
\* handled (resp), the frames it sent (sent), whether the socket held was
\* open (open) and a listen key was held (held) when it began, the listeners
\* of its key before and after, the reconnect timers it set (sched) with
\* the delay of the reconnect timer (delay) and of the cooldown timer
\* (cooldown), the sockets it created (made), and, for ws.onmessage, the
\* frame it got, the listeners whose callback it called (invoked) and those
\* of them whose callback threw (threw); for a REST call that returned, the
\* data it returned (ret); for a callback wait() that timed out, the
\* timestamps its eviction removed (evicted).
NoEv ==
    [op |-> "none", api |-> "-", out |-> "-", n |-> 0, wait |-> 0, waited |-> "-",
     err |-> "none", net |-> 0, slots |-> 0,
     banned |-> FALSE, expired |-> FALSE, resp |-> NoResp,
     sent |-> <<>>, key |-> "-", open |-> FALSE, held |-> FALSE,
     before |-> {}, after |-> {}, sched |-> 0, delay |-> 0, cooldown |-> 0,
     made |-> 0, frame |-> NoFrame, invoked |-> {}, threw |-> {}, ret |-> 0,
     evicted |-> 0]

ListenersOf(k, key) ==
    CASE key \in Kinds -> k.subscribers[key]
      [] key = "account" -> k.accountSubscribers
      [] OTHER -> {}

Live(sk) == {w \in Socks : sk[w] \in {"CONNECTING", "OPEN"}}

PcOf(r) == IF r = 0 THEN "idle" ELSE req[r].pc

\* The state a handler leaves.  k is the session it leaves; r is the slot of
\* the REST call it works on (0: none), rq that call's record while under
\* way and res what its code yielded; waited is what the callback wait() of
\* waitForRateLimit came to, "-" in a handler that is not that callback.
SettleWait(r, rq, res, op, resp, k, key, waited) ==
    LET pc == CASE res.out = "net" -> "inflight"
                [] res.out \in {"rateWait", "backoff"} -> res.out
                [] res.out \in Keys -> "waiter"
                [] OTHER -> "idle"
        mine == IF pc = "idle"
                THEN Idle
                ELSE [rq EXCEPT !.pc = pc,
                                !.startTime = IF pc = "rateWait"
                                                 /\ (PcOf(r) # "rateWait"
                                                       \/ req[r].api # rq.api)
                                              THEN now ELSE @,
                                !.wkey = IF pc = "waiter" THEN res.out ELSE "-"]
    IN  /\ banInfo' = res.s.g.info
        /\ storage' = res.s.g.stored
        /\ requestTimestamps' = res.s.ts
        /\ pendingRequests' = res.s.pend
        /\ accountInfoCache' = res.cache.acct
        /\ orderHistoryCache' = res.cache.hist
        /\ req' = [q \in Reqs |->
                     IF q = r THEN mine
                     ELSE IF req[q].pc = "waiter" /\ res.s.pend[req[q].wkey] = -1
                          THEN Idle
                          ELSE req[q]]
        /\ ws' = k.ws
        /\ sock' = k.sock
        /\ isConnecting' = k.isConnecting
        /\ reconnectAttempts' = k.reconnectAttempts
        /\ timers' = k.timers
        /\ pingInterval' = k.pingInterval
        /\ pings' = k.pings
        /\ listenKey' = k.listenKey
        /\ listenKeyInterval' = k.listenKeyInterval
        /\ subscribers' = k.subscribers
        /\ accountSubscribers' = k.accountSubscribers
        /\ closedByCaller' = k.closedByCaller
        /\ ev' = [op |-> op, api |-> rq.api, out |-> res.out, n |-> rq.n,
                  wait |-> IF res.out = "backoff" THEN res.data ELSE 0,
                  waited |-> waited,
                  err |-> res.err.kind,
                  net |-> IF res.out = "net" THEN 1 ELSE 0,
                  slots |-> CountOf(res.s.ts, now) - CountOf(requestTimestamps, now),
                  banned |-> banInfo.isBanned /\ now <= banInfo.banUntil,
                  expired |-> banInfo.isBanned /\ now > banInfo.banUntil,
                  resp |-> resp,
                  sent |-> k.sent, key |-> key, open |-> isConnected,
                  held |-> listenKey # 0,
                  before |-> ListenersOf(K, key), after |-> ListenersOf(k, key),
                  sched |-> (k.timers.connect + k.timers.cooldown)
                              - (timers.connect + timers.cooldown),
                  delay |-> k.delay, cooldown |-> k.cooldown,
                  made |-> Cardinality(Live(k.sock) \ Live(sock)),
                  frame |-> NoFrame, invoked |-> {}, threw |-> {},
                  ret |-> IF pc = "idle" /\ res.out # "throw" THEN res.data ELSE 0,
                  evicted |-> IF waited = "timeout"
                              THEN Len(requestTimestamps)
                                     - Len(evictOldest(requestTimestamps))
                              ELSE 0]
        /\ UNCHANGED <<now, creds, logVars>>

\* The state a handler other than the callback wait() leaves.
Settle(r, rq, res, op, resp, k, key) == SettleWait(r, rq, res, op, resp, k, key, "-")

\* The state a handler that makes no REST call leaves.
Leave(k, op, key) == Settle(0, Idle, Res(S, C, "-", NoErr, 0), op, NoResp, k, key)

\* A new call is made on the lowest idle slot.
Free(r) == req[r].pc = "idle" /\ \A q \in Reqs : q < r => req[q].pc # "idle"

GetAccountInfo(r) ==
    /\ Free(r)
    /\ Settle(r, Call("idle", "account", "-", 0, now, 0, "-"),
              getAccountInfo(S, C, creds, now), "call", NoResp, K, "-")

GetOpenPositions(r) ==
    /\ Free(r)
    /\ Settle(r, Call("idle", "positions", "-", 0, now, 0, "-"),
              getOpenPositions(S, C, creds, now), "call", NoResp, K, "-")

GetOrderHistory(r, sym) ==
    /\ Free(r)
    /\ Settle(r, [Call("idle", "orders", sym, 0, now, 0, "-")
                      EXCEPT !.cachedEntry = orderHistoryCache[sym]],
              getOrderHistory(S, C, sym, creds, now), "call", NoResp, K, sym)

\* placeOrder: off line it throws; else it connects when the session is
\* not connected, validates the parameters, sets the leverage if one is
\* given and makes the first order attempt.
PlaceOrder(r) ==
    /\ Free(r)
    /\ isConnected \/ CanConnect(K)
    /\ \E args \in OrderArgs :
          LET res == placeOrder(S, C, args, creds, now)
              api == placeOrderApi(S, C, args, creds, now)
              n == IF api = "order" /\ res.out \in {"backoff", "throw"} /\ args # "invalid"
                        /\ args # "offline"
                   THEN 1 ELSE 0
              m == makeAuthenticatedRequest(S, C, siteLeverage, creds, now)
          IN  Settle(r, Call("idle", api, "-", 0, now, n, "-"), res, "call", NoResp,
                     IF args = "offline"
                     THEN K
                     ELSE [(IF isConnected THEN K ELSE connect(K))
                              EXCEPT !.closedByCaller = FALSE],
                     IF args = "leverage" /\ m.out = "throw" THEN "leverageFailed"
                     ELSE args)

\* A timer of a suspended waitForRateLimit call fires.
WaitStep(r) ==
    /\ req[r].pc = "rateWait"
    /\ LET m == afterWait(S, C, siteOf(req[r]), req[r].startTime, now)
           res == layerThen(req[r], m, creds, now)
       IN  SettleWait(r, callThen(req[r], m, res), res, "wait", NoResp,
                      sessionThen(K, req[r], m), keyNote(req[r], m),
                      wait(S, req[r].startTime, now).out)

\* The fetch of call r settles: a response, the 30 s abort or a network error.
Respond(r) ==
    /\ req[r].pc = "inflight"
    /\ \E resp \in Responses(now, req[r].api) :
          LET m == afterFetch(S, C, siteOf(req[r]), resp, now)
              res == layerThen(req[r], m, creds, now)
          IN  Settle(r, callThen(req[r], m, res), res, "response", resp,
                     sessionThen(K, req[r], m), keyNote(req[r], m))

\* The fetch of an account call settles with a 2xx response whose body is
\* not JSON: the executor takes the empty object for it.
RespondEmpty(r) ==
    /\ req[r].pc = "inflight"
    /\ req[r].api \in {"account", "positions"}
    /\ LET resp == [NoResp EXCEPT !.kind = "ok", !.status = 200]
           m == afterFetch(S, C, siteOf(req[r]), resp, now)
           res == layerThen(req[r], m, creds, now)
       IN  Settle(r, callThen(req[r], m, res), res, "response", resp,
                  sessionThen(K, req[r], m), "emptyBody")

\* The fetch of call r settles with an HTTP 400 whose body speaks of no ban
\* and holds the digits 418 (in an error code, an order id, a request id).
RespondDigits(r) ==
    /\ req[r].pc = "inflight"
    /\ LET resp == [NoResp EXCEPT !.kind = "http", !.status = 400, !.says418 = TRUE]
           m == afterFetch(S, C, siteOf(req[r]), resp, now)
           res == layerThen(req[r], m, creds, now)
       IN  Settle(r, callThen(req[r], m, res), res, "response", resp,
                  sessionThen(K, req[r], m), keyNote(req[r], m))

\* The sleep before a retry ends: placeOrder tries the order again,
\* getOpenPositions calls getAccountInfo again.
Retry(r) ==
    /\ req[r].pc = "backoff"
    /\ IF req[r].api = "order"
       THEN LET m == makeAuthenticatedRequest(S, C, siteOrder, creds, now)
                n == IF m.out = "throw" THEN req[r].n + 1 ELSE req[r].n
            IN  Settle(r, [req[r] EXCEPT !.n = n], orderThen(m, n), "retry", NoResp,
                       K, "-")
       ELSE Settle(r, [req[r] EXCEPT !.t0 = now],
                   positionsThen(getAccountInfo(S, C, creds, now), TRUE, now),
                   "retry", NoResp, K, "-")

\* getBanStatus: what it returns.
getBanStatus(g, t) ==
    LET g1 == checkIfBannedReset(g, t)
        d == g1.info.banUntil - t
        remainingMs == IF d > 0 THEN d ELSE 0
    IN  [isBanned |-> g1.info.isBanned /\ remainingMs > 0,
         banUntil |-> g1.info.banUntil,
         remainingMinutes |-> (remainingMs + 59999) \div 60000]

GetBanStatus ==
    /\ Settle(0, Idle,
              Res(Core(checkIfBannedReset(S.g, now), S.ts, S.pend), C,
                  IF getBanStatus(S.g, now).isBanned THEN "banned" ELSE "clear",
                  NoErr, 0),
              "status", NoResp, K, "-")

(***************************************************************************)
(* The session's handlers                                                  *)
(***************************************************************************)
Connect ==
    /\ CanConnect(K)
    /\ Leave([connect(K) EXCEPT !.closedByCaller = FALSE], "connect", "-")

Disconnect ==
    /\ Leave([disconnect(K) EXCEPT !.closedByCaller = TRUE], "disconnect", "-")

Subscribe(kind, callback) ==
    /\ isConnected \/ CanConnect(K)
    /\ Leave([subscribe(K, kind, callback) EXCEPT !.closedByCaller = FALSE],
             "subscribe", kind)

Unsubscribe(kind, callback) ==
    /\ Leave(unsubscribe(K, kind, callback), "unsubscribe", kind)

SubscribeAccount(callback) ==
    /\ isConnected \/ CanConnect(K)
    /\ Leave([subscribeAccount(K, callback) EXCEPT !.closedByCaller = FALSE],
             "subscribe", "account")

UnsubscribeAccount(callback) ==
    /\ Leave(unsubscribeAccount(K, callback), "unsubscribe", "account")

\* The lowest idle slot, 0 when every slot is taken.
Slot == IF \E r \in Reqs : Free(r) THEN CHOOSE r \in Reqs : Free(r) ELSE 0

\* The handler may start a REST call only when a slot is left for it.
Fits(res) == res.out \in {"net", "rateWait"} => Slot # 0

\* Socket w opens: ws.onopen, with the getListenKey call it makes when
\* connect() saw credentials and the account stream has listeners.
SocketOpen(w) ==
    /\ sock[w] = "CONNECTING"
    /\ pings < MaxPings
    /\ LET k1 == onopen([K EXCEPT !.sock[w] = "OPEN"])
       IN  IF creds /\ k1.accountSubscribers # {}
           THEN LET m == getListenKey(k1.listenKey, S, C, creds, now)
                IN  /\ Fits(m)
                    /\ Settle(Slot, Call("idle", "listenKey", "-", 0, now, 0, "-"),
                              m, "open", NoResp, listenKeyThen(k1, m, TRUE), "account")
           ELSE Leave(k1, "open", "-")

\* Socket w closes: a connection attempt that fails, a connection that is
\* lost, or the end of the closing handshake that close() began.
SocketClose(w) ==
    /\ sock[w] \in {"CONNECTING", "OPEN", "CLOSING"}
    /\ timers.connect + timers.cooldown < MaxTimers
    /\ Leave(onclose([K EXCEPT !.sock[w] = "CLOSED"]), "close", "-")

\* A timer of handleReconnect fires.
ReconnectTimer ==
    /\ timers.connect > 0
    /\ CanConnect(K)
    /\ Leave(connect([K EXCEPT !.timers.connect = @ - 1]), "reconnect", "-")

CooldownTimer ==
    /\ timers.cooldown > 0
    /\ CanConnect(K)
    /\ Leave(connect([K EXCEPT !.timers.cooldown = @ - 1, !.reconnectAttempts = 0]),
             "reconnect", "-")

\* A frame arrives on the open socket w; the callbacks in `bad` throw when
\* they are called.
Message(w) ==
    /\ sock[w] = "OPEN"
    /\ frames < MaxFrames
    /\ \E f \in Frames, bad \in SUBSET Listeners :
          LET d == onmessage(K, f, bad)
          IN  /\ frames' = frames + 1
              /\ got' = [l \in Listeners |->
                           IF l \in d.invoked
                           THEN Append(got[l], <<frames + 1, d.key>>)
                           ELSE got[l]]
              /\ ev' = [NoEv EXCEPT !.op = "message", !.out = d.out, !.key = d.key,
                                    !.frame = f, !.invoked = d.invoked,
                                    !.threw = d.invoked \cap bad,
                                    !.open = isConnected, !.held = listenKey # 0,
                                    !.before = ListenersOf(K, d.key),
                                    !.after = ListenersOf(K, d.key)]
    /\ UNCHANGED <<now, creds, restVars, connVars>>

\* A ping interval fires.
PingTimer ==
    /\ pings > 0
    /\ Leave(IF isConnected THEN [K EXCEPT !.sent = <<Frame("ping", "-")>>] ELSE K,
             "ping", "-")

\* The refresh interval fires.
RefreshTimer ==
    /\ listenKeyInterval
    /\ IF listenKey = 0
       THEN Leave(K, "refresh", "-")
       ELSE LET rq == Call("idle", "refresh", "-", 0, now, 0, "-")
                m == makeAuthenticatedRequest(S, C, siteRefresh, creds, now)
                res == refreshCatch(m, creds, now)
            IN  /\ Fits(res)
                /\ Settle(Slot, callThen(rq, m, res), res, "refresh", NoResp,
                          sessionThen(K, rq, m), "-")

\* The clock advances by a millisecond, by 30 s or by 12 h; a long step of
\* either length is taken at most once.
LongSteps == {0, 1}

Clock == {1 + a + maxWaitTime * b + twelveHoursMs * c :
            a \in 0..MaxMs, b \in LongSteps, c \in LongSteps}

Tick(d) ==
    /\ now + d \in Clock
    /\ now' = now + d
    /\ ev' = [NoEv EXCEPT !.op = "tick"]
    /\ UNCHANGED <<creds, restVars, connVars, logVars>>

\* A fresh instance, whose constructor reads the persisted ban entry.
Construct(stored, t) ==
    /\ banInfo = loadBanInfo(stored, t).info
    /\ storage = loadBanInfo(stored, t).stored
    /\ requestTimestamps = <<>>
    /\ pendingRequests = [k \in Keys |-> -1]
    /\ accountInfoCache = NoCache
    /\ orderHistoryCache = [y \in Symbols |-> NoCache]
    /\ req = [r \in Reqs |-> Idle]
    /\ ws = 0
    /\ sock = [w \in Socks |-> "none"]
    /\ isConnecting = FALSE
    /\ reconnectAttempts = 0
    /\ timers = NoTimers
    /\ pingInterval = FALSE
    /\ pings = 0
    /\ listenKey = 0
    /\ listenKeyInterval = FALSE
    /\ subscribers = [kind \in Kinds |-> {}]
    /\ accountSubscribers = {}
    /\ closedByCaller = FALSE
    /\ frames = 0
    /\ got = [l \in Listeners |-> <<>>]

\* What an earlier run may have left in localStorage.
StoredEntries ==
    {NoEntry, Entry(NoBan)}
    \cup {Entry([isBanned |-> TRUE, banUntil |-> u]) : u \in 0..(1 + MaxBanAhead)}

Loaded(stored, t) ==
    [NoEv EXCEPT !.op = "load",
                 !.banned = stored.present /\ stored.isBanned /\ t <= stored.banUntil,
                 !.expired = stored.present /\ stored.isBanned /\ t > stored.banUntil]

Init ==
    /\ now = 1
    /\ creds \in BOOLEAN
    /\ \E stored \in StoredEntries :
          /\ Construct(stored, 1)
          /\ ev = Loaded(stored, 1)

\* The page is loaded again: a new instance, constructed from what
\* localStorage holds now; the calls under way and the sockets of the old
\* one are gone.
Restart ==
    /\ banInfo' = loadBanInfo(storage, now).info
    /\ storage' = loadBanInfo(storage, now).stored
    /\ requestTimestamps' = <<>>
    /\ pendingRequests' = [k \in Keys |-> -1]
    /\ accountInfoCache' = NoCache
    /\ orderHistoryCache' = [y \in Symbols |-> NoCache]
    /\ req' = [r \in Reqs |-> Idle]
    /\ ws' = 0
    /\ sock' = [w \in Socks |-> "none"]
    /\ isConnecting' = FALSE
    /\ reconnectAttempts' = 0
    /\ timers' = NoTimers
    /\ pingInterval' = FALSE
    /\ pings' = 0
    /\ listenKey' = 0
    /\ listenKeyInterval' = FALSE
    /\ subscribers' = [kind \in Kinds |-> {}]
    /\ accountSubscribers' = {}
    /\ closedByCaller' = FALSE
    /\ frames' = 0
    /\ got' = [l \in Listeners |-> <<>>]
    /\ ev' = Loaded(storage, now)
    /\ UNCHANGED <<now, creds>>

\* REST only, one call at a time.
Next ==
    \/ \E d \in {1, twelveHoursMs} : Tick(d)
    \/ GetBanStatus
    \/ GetAccountInfo(1)
    \/ GetOpenPositions(1)
    \/ GetOrderHistory(1, "all")
    \/ PlaceOrder(1)
    \/ WaitStep(1)
    \/ Respond(1)
    \/ Retry(1)

Spec == Init /\ [][Next]_vars

\* REST only, calls overlapping, the clock standing still.
NextConc ==
    \/ \E r \in Reqs : GetAccountInfo(r)
    \/ \E r \in Reqs : GetOpenPositions(r)
    \/ \E r \in Reqs, sym \in Symbols : GetOrderHistory(r, sym)
    \/ \E r \in Reqs : PlaceOrder(r)
    \/ \E r \in Reqs : WaitStep(r)
    \/ \E r \in Reqs : Respond(r)
    \/ \E r \in Reqs : Retry(r)

SpecConc == Init /\ [][NextConc]_vars

\* A first run with credentials stored: no ban entry persisted.
InitSession ==
    /\ Init
    /\ creds
    /\ storage = NoEntry

\* The socket's life: connect, disconnect, a ticker subscription, the
\* socket's events and the timers.
NextSession ==
    \/ Connect
    \/ Disconnect
    \/ Subscribe("ticker", "L1")
    \/ Unsubscribe("ticker", "L1")
    \/ \E w \in Socks : SocketOpen(w)
    \/ \E w \in Socks : SocketClose(w)
    \/ ReconnectTimer
    \/ CooldownTimer
    \/ PingTimer

SpecSession == InitSession /\ [][NextSession]_vars

\* A connection that is lost again and again, its timers firing in the end
\* (setTimeout callbacks run once their delay has passed).
NextReconnect ==
    \/ Connect
    \/ \E w \in Socks : SocketOpen(w)
    \/ \E w \in Socks : SocketClose(w)
    \/ ReconnectTimer
    \/ CooldownTimer

SpecReconnect ==
    /\ InitSession
    /\ [][NextReconnect]_vars
    /\ WF_vars(ReconnectTimer)
    /\ WF_vars(CooldownTimer)

\* The public streams over a connection that opens, closes and reopens.
NextStream ==
    \/ \E kind \in Kinds, callback \in Listeners : Subscribe(kind, callback)
    \/ \E kind \in Kinds, callback \in Listeners : Unsubscribe(kind, callback)
    \/ \E w \in Socks : SocketOpen(w)
    \/ \E w \in Socks : SocketClose(w)
    \/ ReconnectTimer

SpecStream == InitSession /\ [][NextStream]_vars

\* The account stream and its listen key over one connection.
NextAccount ==
    \/ \E d \in {1, maxWaitTime} : Tick(d)
    \/ \E callback \in Listeners : SubscribeAccount(callback)
    \/ \E callback \in Listeners : UnsubscribeAccount(callback)
    \/ \E w \in Socks : SocketOpen(w)
    \/ RefreshTimer
    \/ \E r \in Reqs : WaitStep(r)
    \/ \E r \in Reqs : Respond(r)

SpecAccount == Init /\ [][NextAccount]_vars

\* The rate limiter under the requests of one account listener: the listen
\* key call of onopen and the refresh calls overlap, wait for a slot and meet
\* a ban that begins while they wait.
NextLimiter ==
    \/ \E d \in {1, maxWaitTime} : Tick(d)
    \/ SubscribeAccount("L1")
    \/ \E w \in Socks : SocketOpen(w)
    \/ RefreshTimer
    \/ \E r \in Reqs : WaitStep(r)
    \/ \E r \in Reqs : Respond(r)

SpecLimiter == InitSession /\ [][NextLimiter]_vars

\* Callers of the rate limiter that arrive while the clock has its long
\* step ahead; the callbacks of the suspended ones fire and time passes in
\* the end.
Arrive(r) ==
    /\ now + twelveHoursMs \in Clock
    /\ GetAccountInfo(r)

\* The two callers of this specification: the first and the last slot.
WaitCallers == {r \in Reqs : r = 1 \/ r = MaxReq}

NextWait ==
    \/ \E d \in {1, twelveHoursMs} : Tick(d)
    \/ \E r \in WaitCallers : Arrive(r)
    \/ \E r \in WaitCallers : WaitStep(r)
    \/ \E r \in WaitCallers : Respond(r)

SpecWait ==
    /\ Init
    /\ [][NextWait]_vars
    /\ WF_vars(\E r \in WaitCallers : WaitStep(r))
    /\ WF_vars(Tick(twelveHoursMs))

\* The account calls, overlapping, with every answer the fetch may get.
NextCoalesce ==
    \/ \E d \in {1, maxWaitTime} : Tick(d)
    \/ \E r \in Reqs : GetAccountInfo(r)
    \/ \E r \in Reqs : GetOpenPositions(r)
    \/ \E r \in Reqs : WaitStep(r)
    \/ \E r \in Reqs : Respond(r)
    \/ \E r \in Reqs : RespondEmpty(r)
    \/ \E r \in Reqs : Retry(r)

SpecCoalesce == InitSession /\ [][NextCoalesce]_vars

\* Inbound frames: ticker and kline listeners come and go, an account
\* listener comes, the socket opens and frames arrive on it.
NextFrames ==
    \/ \E l \in Listeners : Subscribe("ticker", l)
    \/ Subscribe("kline", "L1")
    \/ Unsubscribe("ticker", "L1")
    \/ SubscribeAccount("L1")
    \/ \E w \in Socks : SocketOpen(w)
    \/ \E w \in Socks : Message(w)

SpecFrames == InitSession /\ [][NextFrames]_vars

\* Orders alone, one call at a time.
NextOrder ==
    \/ \E d \in {1, twelveHoursMs} : Tick(d)
    \/ PlaceOrder(1)
    \/ WaitStep(1)
    \/ Respond(1)
    \/ Retry(1)

SpecOrder == Init /\ [][NextOrder]_vars

\* The cached calls, getAccountInfo and getOrderHistory, one at a time,
\* while the clock runs past the life of a cache entry.
NextCache ==
    \/ \E d \in {1, twelveHoursMs} : Tick(d)
    \/ GetAccountInfo(1)
    \/ \E sym \in Symbols : GetOrderHistory(1, sym)
    \/ WaitStep(1)
    \/ Respond(1)

SpecCache == InitSession /\ [][NextCache]_vars

\* The three read calls, one at a time, while bans begin and the cache
\* entries age.
NextStale ==
    \/ \E d \in {1, twelveHoursMs} : Tick(d)
    \/ GetAccountInfo(1)
    \/ GetOpenPositions(1)
    \/ \E sym \in Symbols : GetOrderHistory(1, sym)
    \/ WaitStep(1)
    \/ Respond(1)
    \/ Retry(1)

SpecStale == InitSession /\ [][NextStale]_vars

\* The failures a request may meet, the HTTP errors with digits in their
\* body included.
NextSignals ==
    \/ \E d \in {1, twelveHoursMs} : Tick(d)
    \/ GetAccountInfo(1)
    \/ \E sym \in Symbols : GetOrderHistory(1, sym)
    \/ WaitStep(1)
    \/ Respond(1)
    \/ RespondDigits(1)

SpecSignals == InitSession /\ [][NextSignals]_vars

\* BanGuard over restarts: bans come with the answers to getAccountInfo,
\* lapse with the clock and are cleared by the next look at them.
NextBan ==
    \/ \E d \in {1, twelveHoursMs} : Tick(d)
    \/ GetBanStatus
    \/ GetAccountInfo(1)
    \/ Respond(1)
    \/ Restart

SpecBan == Init /\ [][NextBan]_vars

\* The venue answers the fetch of call r with a 2xx response.
Answer(r) ==
    /\ Respond(r)
    /\ ev'.resp.kind = "ok"

\* Listeners come, the socket opens and the venue answers every request:
\* no socket closes, no request fails, no ban is set.
NextKey ==
    \/ \E kind \in {"ticker", "depth"} : Subscribe(kind, "L1")
    \/ \E l \in Listeners : SubscribeAccount(l)
    \/ \E w \in Socks : SocketOpen(w)
    \/ \E r \in Reqs : Answer(r)

SpecKey ==
    /\ InitSession
    /\ [][NextKey]_vars
    /\ WF_vars(\E w \in Socks : SocketOpen(w))
    /\ WF_vars(\E r \in Reqs : Answer(r))

\* The account stream over a disconnect() and a new connection, every
\* answer of the venue a success.
NextResume ==
    \/ \E callback \in Listeners : SubscribeAccount(callback)
    \/ Connect
    \/ Disconnect
    \/ \E w \in Socks : SocketOpen(w)
    \/ RefreshTimer
    \/ \E r \in Reqs : Answer(r)

SpecResume == InitSession /\ [][NextResume]_vars

(***************************************************************************)
(* Properties                                                              *)
(***************************************************************************)
\* The calls whose fetch is under way for a coalescing key.
InFlight(key) == {r \in Reqs : req[r].pc = "inflight" /\ siteOf(req[r]).key = key}

\* C1: for a coalescing key, a second call issued while the first is in
\* flight makes no network call of its own: at most one fetch is under way
\* per key.
C1_OneFetchPerKey == \A key \in Keys : Cardinality(InFlight(key)) <= 1

\* The last handler entered makeAuthenticatedRequest with
\* allowDuringBan = false: an order attempt of placeOrder, which throws
\* before the executor when off line or called with invalid parameters (the
\* other call sites return before the executor while a ban is active).
RequestMade ==
    ev.op \in {"call", "retry"} /\ ev.api = "order" /\ ev.key \notin {"offline", "invalid"}

\* C2 as stated: a request with allowDuringBan = false made while the ban
\* is active is rejected with a ban error, takes no rate slot and makes no
\* network call.
C2_BanErrorAlways ==
    (RequestMade /\ ev.banned) => (ev.err = "banned" /\ ev.slots = 0 /\ ev.net = 0)

\* C2 amended: such a request takes no rate slot and makes no network call;
\* it is rejected with a ban error when credentials are stored and with the
\* credentials error when they are not.
C2_BanGate ==
    (RequestMade /\ ev.banned) =>
        /\ ev.slots = 0
        /\ ev.net = 0
        /\ ev.err = IF creds THEN "banned" ELSE "creds"

C2_Witness == RequestMade /\ ev.banned /\ creds /\ ev.err = "banned" /\ now = banInfo.banUntil

\* C4: once a response whose text names 'banned until T' has been handled,
\* banUntil is exactly T, in memory and in storage, whichever layers the
\* error went through.
C4_BanUntilIsT ==
    (ev.op = "response" /\ ev.resp.banT # 0) =>
        /\ banInfo = [isBanned |-> TRUE, banUntil |-> ev.resp.banT]
        /\ storage = Entry(banInfo)

C4_Witness ==
    /\ ev.op = "response"
    /\ ev.api = "positions"
    /\ ev.resp.status = 418
    /\ ev.resp.banT # 0
    /\ banInfo.banUntil = ev.resp.banT

\* A 418 or 429 response without a parseable ban timestamp was handled.
NoTimestamp ==
    ev.op = "response" /\ ev.resp.kind = "http" /\ ev.resp.status \in {418, 429}
        /\ ev.resp.banT = 0

DefaultBan == [isBanned |-> TRUE, banUntil |-> now + twelveHoursMs]

StatusChecked ==
    \/ ev.op = "status"
    \/ ev.op = "call" /\ ev.api \in {"account", "orders"} /\ ev.out # "cached"
    \/ RequestMade /\ creds

\* C6: an expired ban is reported as over by the next status check, which
\* resets the ban state in memory and in storage; the constructor does the
\* same to an expired entry it loads.
C6_ExpiredBanCleared ==
    ((StatusChecked \/ ev.op = "load") /\ ev.expired) =>
        /\ ev.out \notin {"banned", "stale", "mock"}
        /\ ev.err # "banned"
        /\ banInfo = NoBan
        /\ storage = Entry(NoBan)

C6_Witness ==
    /\ ev.op = "status"
    /\ ev.expired
    /\ ev.out = "clear"
    /\ banInfo = NoBan
    /\ storage = Entry(NoBan)

\* getListenKey was called with no key to return: by onopen for the
\* account stream, or by the refresh interval once its PUT was refused.
ListenKeyAsked ==
    \/ ev.op = "open" /\ ev.key = "account" /\ ~ev.held
    \/ ev.op = "refresh" /\ ev.held /\ ev.err # "none"

\* C3: the listen-key request (allowDuringBan = true) made while the ban is
\* active is not rejected because of the ban: it passes the ban gate and the
\* rate limiter, to the network.
C3_ListenKeyDuringBan ==
    (ListenKeyAsked /\ ev.banned) => (ev.out \in {"net", "rateWait"} /\ ev.err # "banned")

\* C7: on an open connection a ticker, kline or depth subscribe sends one
\* SUBSCRIBE for the key's first listener and nothing for a later one; an
\* unsubscribe sends one UNSUBSCRIBE when it removes the last listener and
\* nothing while a listener remains.
C7_FirstAndLastOnly ==
    /\ (ev.op = "subscribe" /\ ev.key \in Kinds /\ ev.open) =>
          ev.sent = IF ev.before = {} THEN <<Frame("SUBSCRIBE", ev.key)>> ELSE <<>>
    /\ (ev.op = "unsubscribe" /\ ev.key \in Kinds /\ ev.open) =>
          ev.sent = IF ev.before # {} /\ ev.after = {}
                    THEN <<Frame("UNSUBSCRIBE", ev.key)>> ELSE <<>>

C7_Witness ==
    /\ ev.op = "unsubscribe"
    /\ ev.key = "depth"
    /\ ev.open
    /\ ev.before = {"L2"}
    /\ ev.after = {}
    /\ ev.sent = <<Frame("UNSUBSCRIBE", "depth")>>

\* C8: on an open connection with a listen key held, subscribeAccount sends
\* a SUBSCRIBE only when the account listener set goes from empty to
\* non-empty, and unsubscribeAccount an UNSUBSCRIBE only when the set
\* becomes empty.
C8_AccountFirstAndLastOnly ==
    /\ (ev.op = "subscribe" /\ ev.key = "account" /\ ev.open /\ ev.held) =>
          ev.sent = IF ev.before = {} THEN <<Frame("SUBSCRIBE", "listenKey")>> ELSE <<>>
    /\ (ev.op = "unsubscribe" /\ ev.key = "account" /\ ev.open /\ ev.held) =>
          ev.sent = IF ev.before # {} /\ ev.after = {}
                    THEN <<Frame("UNSUBSCRIBE", "listenKey")>> ELSE <<>>

\* C9: after disconnect(), until the caller connects or subscribes again,
\* no reconnect timer is pending, no refresh interval runs and no socket is
\* connecting or open.
C9_StaysDisconnected ==
    closedByCaller =>
        /\ timers = NoTimers
        /\ ~listenKeyInterval
        /\ Live(sock) = {}

\* C10: at most one socket is connecting or open at any time.
C10_OneLiveSocket == Cardinality(Live(sock)) <= 1

\* C11 (as stated): the reconnect scheduled for attempt number k, the value
\* the counter takes with that close, waits baseDelay * 2^k.
C11_DelayTwoToTheAttempt ==
    [][ev'.op = "close" /\ reconnectAttempts < maxReconnectAttempts
         => ev'.delay = reconnectInterval * 2^(reconnectAttempts')]_vars

\* C11 (amended): a close that finds the counter at a < 5 makes it a + 1,
\* the attempt number, and sets one reconnect timer of baseDelay * 2^a
\* (10 s for attempt 1 up to 160 s for attempt 5) and no cooldown; a close
\* that finds the counter at 5 leaves it and sets one cooldown timer of 60 s
\* and no reconnect timer.
C11_DelaySequence ==
    [][ev'.op = "close"
         => IF reconnectAttempts < maxReconnectAttempts
            THEN /\ reconnectAttempts' = reconnectAttempts + 1
                 /\ timers'.connect = timers.connect + 1
                 /\ timers'.cooldown = timers.cooldown
                 /\ ev'.delay = reconnectInterval * 2^reconnectAttempts
                 /\ ev'.cooldown = 0
            ELSE /\ reconnectAttempts' = reconnectAttempts
                 /\ timers'.cooldown = timers.cooldown + 1
                 /\ timers'.connect = timers.connect
                 /\ ev'.cooldown = cooldownDelay
                 /\ ev'.delay = 0]_vars

\* The close after the fifth attempt has set the cooldown, the fifth attempt
\* having been scheduled by the close before it.
C11_Witness ==
    /\ ev.op = "close"
    /\ ev.cooldown = cooldownDelay
    /\ reconnectAttempts = maxReconnectAttempts

\* C12: reconnection never gives up.  After every socket close that no
\* disconnect() caused, a timer of handleReconnect calls connect() in the
\* end; after the close that found the attempts used up, the cooldown timer
\* in the end sets the counter to 0 and calls connect(), and a cooldown
\* timer that fires always leaves the counter at 0.
C12_NeverGivesUp ==
    /\ (ev.op = "close" /\ ~closedByCaller) ~> (ev.op = "reconnect")
    /\ (ev.op = "close" /\ ~closedByCaller /\ ev.cooldown = cooldownDelay)
           ~> (ev.op = "reconnect" /\ reconnectAttempts = 0)
    /\ [][timers'.cooldown < timers.cooldown
            => ev'.op = "reconnect" /\ reconnectAttempts' = 0]_vars

\* The cooldown timer has fired after the attempts were used up: the counter
\* is 0 again and connect() has made a new socket.
C12_Witness ==
    /\ ev.op = "reconnect"
    /\ reconnectAttempts = 0
    /\ ev.made = 1
    /\ ~closedByCaller

\* The stream keys for which the last handler sent a SUBSCRIBE frame.
Subscribed == {ev.sent[i].stream : i \in {j \in 1..Len(ev.sent) : ev.sent[j].method = "SUBSCRIBE"}}

\* C13: after every socket open the reconnect counter is 0, the keepalive
\* runs, and the handler has sent a SUBSCRIBE for exactly the ticker, kline
\* and depth keys that have listeners.
C13_OpenResubscribes ==
    ev.op = "open"
        => /\ reconnectAttempts = 0
           /\ pingInterval
           /\ \A kind \in Kinds : subscribers[kind] # {} <=> kind \in Subscribed

\* C14: a placeOrder call with a missing or non-positive quantity or (type
\* LIMIT) price fails with the invalid-parameters error, and on its behalf no
\* fetch is issued, no rate-window slot is taken and no socket is created.
C14_ValidatesBeforeNetwork ==
    (ev.op = "call" /\ ev.api = "order" /\ ev.key = "invalid")
        => /\ ev.out = "throw"
           /\ ev.err = "params"
           /\ ev.net = 0
           /\ ev.slots = 0
           /\ ev.made = 0

\* C15: when the response to an order request is an error whose text has
\* 'Invalid API-key', 'Signature' or 'Parameter', placeOrder throws in that
\* handler: no fetch follows, no backoff sleep begins and no order call is
\* left under way; on the first attempt that makes one order fetch in all.
C15_FatalNotRetried ==
    (ev.op = "response" /\ ev.api = "order" /\ ev.resp.kind = "http" /\ ev.resp.saysFatal)
        => /\ ev.out = "throw"
           /\ ev.err = "http"
           /\ ev.net = 0
           /\ ev.wait = 0
           /\ \A r \in Reqs : req[r].api # "order"

\* A first order attempt has been answered with such an error.
C15_Witness ==
    /\ ev.op = "response"
    /\ ev.api = "order"
    /\ ev.resp.saysFatal
    /\ ~ev.resp.saysBanned
    /\ ev.n = 1
    /\ ev.out = "throw"

\* The handler found no unexpired ban and left one.
BanDetected == ~ev.banned /\ banInfo.isBanned /\ now <= banInfo.banUntil

\* C16: when the first order attempt of a placeOrder call that has
\* credentials is made while BanGuard reports banned, or a ban is detected
\* in the handler that ends it, placeOrder throws there: no backoff sleep
\* begins and no second attempt is made.
C16_BanAbortsOrder ==
    (creds /\ ev.api = "order" /\ ev.n = 1 /\ ev.key \in {"plain", "-"}
       /\ ev.op \in {"call", "response"} /\ (ev.banned \/ BanDetected))
        => /\ ev.out = "throw"
           /\ ev.wait = 0

\* The error the handler met is none of those the retry loop gives up on.
Transient ==
    /\ ev.err # "none"
    /\ ~(ev.resp.kind = "http" /\ (ev.resp.saysFatal \/ ev.resp.saysBanned))

\* C17: a placeOrder call hands at most 3 order requests to the executor (n
\* failed ones and the one under way); a transient failure that is the k-th,
\* k < 3, begins a sleep of 2^k seconds, from which the next attempt is
\* made, and the third failure makes placeOrder throw; a success ends the
\* call with no further request.
C17_AtMostThreeAttempts ==
    /\ \A r \in Reqs :
          req[r].api = "order"
             => req[r].n + (IF req[r].pc \in {"inflight", "rateWait", "waiter"}
                            THEN 1 ELSE 0) <= maxAttempts
    /\ (ev.api = "order" /\ ev.key \notin {"offline", "invalid"} /\ Transient)
          => /\ ev.n \in 1..maxAttempts
             /\ ev.out = IF ev.n < maxAttempts THEN "backoff" ELSE "throw"
             /\ ev.wait = IF ev.n < maxAttempts THEN 2^ev.n * 1000 ELSE 0
             /\ ev.net = 0
    /\ (ev.api = "order" /\ ev.op = "retry")
          => ev.out \in {"net", "rateWait", "backoff", "throw"}
    /\ (ev.api = "order" /\ ev.op = "response" /\ ev.key = "-" /\ ev.resp.kind = "ok")
          => /\ ev.out = "ok"
             /\ ev.net = 0
             /\ \A r \in Reqs : req[r].api # "order"

\* The third attempt has failed with a transient error and placeOrder has
\* thrown, the second having been a fetch that failed.
C17_Witness ==
    /\ ev.api = "order"
    /\ ev.op = "response"
    /\ Transient
    /\ ev.n = maxAttempts
    /\ ev.out = "throw"

\* C18: when the leverage request of placeOrder fails, in the executor or at
\* the venue, the same handler hands the order request to the executor: the
\* call goes on as an order call, its first attempt under way or, if the
\* executor turned that attempt away, asleep before the second.
C18_LeverageFailureIgnored ==
    ev.key = "leverageFailed"
        => /\ ev.api = "order"
           /\ ev.out \in {"net", "rateWait", "backoff"}
           /\ ev.out = "backoff" => ev.n = 1
           /\ \E r \in Reqs :
                 /\ req[r].api = "order"
                 /\ req[r].pc = IF ev.out = "net" THEN "inflight" ELSE ev.out

\* The venue has refused the leverage request and the order fetch is issued.
C18_Witness ==
    /\ ev.key = "leverageFailed"
    /\ ev.op = "response"
    /\ ev.resp.kind = "http"
    /\ ev.out = "net"
    /\ ev.net = 1

\* The admissible count: the capacity less the safety buffer.
Admissible == MAX_REQUESTS_PER_MINUTE - RATE_LIMIT_BUFFER

\* C19: the rate window never holds more timestamps than the admissible
\* count; a handler that ran the admission check (it took a slot, or it left
\* its call suspended for one) leaves only timestamps younger than the
\* window, and a handler takes at most one slot, the window holding fewer
\* than the admissible count before it.
C19_WindowBounded ==
    /\ Len(requestTimestamps) <= Admissible
    /\ ev.slots <= 1
    /\ (ev.slots = 1 \/ ev.out = "rateWait")
          => \A i \in 1..Len(requestTimestamps) :
                now - requestTimestamps[i] < REQUEST_WINDOW_MS
    /\ ev.out = "rateWait" => Len(requestTimestamps) = Admissible

\* A request has been admitted into a window that is thereby full, the
\* timestamp of the account request answered more than a window ago having
\* been pruned.
C19_Witness ==
    /\ ev.slots = 1
    /\ Len(requestTimestamps) = Admissible
    /\ accountInfoCache.present
    /\ now - accountInfoCache.timestamp >= REQUEST_WINDOW_MS

\* C20 (as stated): no handler that begins while BanGuard reports banned
\* records a timestamp (the window gains no entry), and the callback of a caller suspended in
\* waitForRateLimit then rejects it with the ban error.
C20_BanErrorForWaiter ==
    /\ ev.banned => ev.slots <= 0
    /\ (ev.op = "wait" /\ ev.banned) => ev.waited = "banned"

\* C20 (amended): no handler that begins while BanGuard reports banned
\* records a timestamp, and the callback of a caller suspended in
\* waitForRateLimit then rejects it: with the timeout error when the caller
\* has been suspended for more than maxWaitTime, else with the ban error.
C20_NoAdmissionWhileBanned ==
    /\ [](ev.banned => ev.slots <= 0)
    /\ []((ev.op = "wait" /\ ev.banned) => ev.waited \in {"banned", "timeout"})
    /\ [][\A r \in Reqs :
            (/\ req[r].pc = "rateWait"
             /\ \A q \in Reqs : req[q].pc = "rateWait" => req[q].startTime = req[r].startTime
             /\ ev'.op = "wait"
             /\ ev'.banned)
               => /\ ev'.waited = IF now - req[r].startTime > maxWaitTime
                                  THEN "timeout" ELSE "banned"
                  /\ ev'.net = 0]_vars

\* The callback of a suspended caller has found the ban that began during
\* its wait and has rejected the caller with the ban error.
C20_Witness ==
    /\ ev.op = "wait"
    /\ ev.banned
    /\ ev.waited = "banned"
    /\ ev.slots <= 0

\* The suspended waitForRateLimit calls.
Suspended == {r \in Reqs : req[r].pc = "rateWait"}

\* C21: every suspended waitForRateLimit call settles in the end: no call
\* stays suspended.  Its callback admits it
\* with one timestamp recorded and the fetch issued, or rejects it with the
\* ban error, or, only once more than maxWaitTime has passed since t0,
\* rejects it with the timeout error.
C21_WaitSettles ==
    /\ \A r \in WaitCallers : (req[r].pc = "rateWait") ~> (req[r].pc # "rateWait")
    /\ [](ev.op = "wait" => /\ ev.waited \in {"admitted", "timeout", "banned", "wait"}
                            /\ ev.waited = "admitted" <=> ev.slots = 1
                            /\ ev.waited = "admitted" <=> ev.net = 1
                            /\ ev.waited = "timeout" => ev.err \in {"rateTimeout", "none"}
                            /\ ev.waited = "banned" => ev.err \in {"banned", "none"})
    /\ [][\A r \in Suspended :
            ((\A q \in Suspended : req[q].startTime = req[r].startTime) /\ ev'.op = "wait")
               => (ev'.waited = "timeout" <=> now - req[r].startTime > maxWaitTime)]_vars

\* A call suspended for more than the maximum wait has been rejected with
\* the timeout error.
C21_Witness ==
    /\ ev.op = "wait"
    /\ ev.waited = "timeout"
    /\ ev.err = "rateTimeout"
    /\ ev.out = "throw"

\* C22: once a REST call made with a coalescing key has come to its end
\* (success, HTTP error, timeout, network error, rate-limit timeout or ban
\* rejection), no marker of its key is left in the pending-request map and
\* no waiter of the key is left waiting: with no call under way the map is
\* empty, and a waiter waits only on a key that has its marker.
C22_NoMarkerLeft ==
    /\ (\A r \in Reqs : req[r].pc = "idle") => \A key \in Keys : pendingRequests[key] = -1
    /\ \A r \in Reqs : req[r].pc = "waiter" => pendingRequests[req[r].wkey] # -1

\* The last element of a listener's log is the frame just received, for key.
GotLast(l, key) == Len(got[l]) > 0 /\ got[l][Len(got[l])] = <<frames, key>>

\* C23: when a callback of a key throws during the fan-out of a frame, every
\* listener of the key is still called with that frame; the next frame for a
\* key is again delivered to all its listeners, the one that threw included;
\* and the frame leaves the connection, the timers and the listener sets as
\* they were.
C23_ThrowIsolated ==
    /\ [](ev.op = "message" /\ ev.threw # {}
            => /\ ev.invoked = ev.before
               /\ \A l \in ev.before : GotLast(l, ev.key))
    /\ [][ev.op = "message" /\ ev.threw # {} /\ ev'.op = "message"
             /\ ev'.out = "dispatched"
            => /\ ev'.invoked = ListenersOf(K, ev'.key)
               /\ \A l \in ListenersOf(K, ev'.key) :
                     got'[l] = Append(got[l], <<frames', ev'.key>>)]_vars
    /\ [][ev'.op = "message" => UNCHANGED <<connVars, restVars>>]_vars

\* L1 threw on a frame and both listeners were called; then the next frame
\* reached both as well.
C23_Witness ==
    /\ ev.op = "message"
    /\ ev.invoked = {"L1", "L2"}
    /\ ev.threw = {"L1"}
    /\ frames = 2
    /\ Len(got["L1"]) = 2
    /\ Len(got["L2"]) = 2

\* The key a frame is for: its event type with the symbol (and interval) of
\* the key; "-" for a frame that is for no key.
KeyOf(f) ==
    IF ~f.json \/ f.pong
    THEN "-"
    ELSE CASE f.e = "24hrTicker" /\ f.s = "sym" -> "ticker"
           [] f.e = "kline" /\ f.s = "sym" /\ f.k = "int" -> "kline"
           [] f.e = "depthUpdate" /\ f.s = "sym" -> "depth"
           [] f.e \in {"ACCOUNT_UPDATE", "ORDER_TRADE_UPDATE"} -> "account"
           [] OTHER -> "-"

\* The frame is not JSON, or it lacks a field the dispatch goes by: the event
\* type, the symbol, the field k of a kline.
Unroutable(f) ==
    \/ ~f.json
    \/ f.e = "none"
    \/ f.e \in {"24hrTicker", "depthUpdate", "kline"} /\ f.s = "none"
    \/ f.e = "kline" /\ f.k = "none"

\* The frame is not JSON, or it lacks a field its event needs, the values a
\* ticker or kline event is built from included.
LacksFields(f) ==
    \/ Unroutable(f)
    \/ f.e \in {"24hrTicker", "kline"} /\ ~f.vals

\* C24 as stated: a frame that is not JSON or whose payload lacks required
\* fields is swallowed, no listener being called.
C24_MalformedSwallowed ==
    ev.op = "message" /\ LacksFields(ev.frame) => ev.invoked = {}

\* C24, amended: a frame that is not JSON, or that lacks the event type, the
\* symbol or the field k the dispatch goes by, is swallowed: no listener is
\* called, and the sockets, the timers and the listener sets stay as they
\* were; the next frame that is for a key is delivered to the key's
\* listeners.  A frame that has those fields and lacks only its values is
\* delivered to the listeners of its key.
C24_UnroutableSwallowed ==
    /\ [](ev.op = "message" /\ Unroutable(ev.frame)
            => /\ ev.invoked = {}
               /\ ev.out \in {"parseError", "typeError", "ignored", "pong"})
    /\ [](ev.op = "message" /\ KeyOf(ev.frame) # "-" /\ ~ev.frame.vals
            => ev.invoked = ListenersOf(K, KeyOf(ev.frame)))
    /\ [][ev'.op = "message" /\ Unroutable(ev'.frame)
            => /\ sock' = sock /\ ws' = ws /\ timers' = timers
               /\ subscribers' = subscribers
               /\ accountSubscribers' = accountSubscribers
               /\ got' = got]_vars
    /\ [][ev.op = "message" /\ Unroutable(ev.frame) /\ ev'.op = "message"
             /\ KeyOf(ev'.frame) # "-"
            => ev'.invoked = ListenersOf(K, KeyOf(ev'.frame))]_vars

\* A frame that is not JSON arrived on the open socket while the ticker key
\* had listeners.
C24_Witness ==
    /\ ev.op = "message"
    /\ ev.out = "parseError"
    /\ isConnected
    /\ subscribers["ticker"] # {}
    /\ frames = 1

\* The frame numbers of a listener's log grow strictly and are numbers of
\* frames received.
InOrder(log) ==
    /\ \A i \in 1..Len(log) : log[i][1] \in 1..frames
    /\ \A i, j \in 1..Len(log) : i < j => log[i][1] < log[j][1]

\* C25: what a listener receives is, in order, a subsequence of the frames
\* received: its callback is called only by the handler of a frame, with that
\* frame, and only when the frame is for a key the listener is registered on
\* at that moment (event type, symbol and, for klines, interval match); a
\* frame whose id is 'pong' is delivered to no listener.
C25_InOrderToMatchingKey ==
    /\ [](\A l \in Listeners : InOrder(got[l]))
    /\ [](ev.op = "message"
            => /\ ev.frame.pong => ev.invoked = {}
               /\ ev.invoked # {} => /\ ev.key = KeyOf(ev.frame)
                                     /\ ev.key # "-"
                                     /\ ev.invoked \subseteq ListenersOf(K, ev.key))
    /\ [][\A l \in Listeners :
             \/ got'[l] = got[l]
             \/ /\ ev'.op = "message"
                /\ frames' = frames + 1
                /\ got'[l] = Append(got[l], <<frames', KeyOf(ev'.frame)>>)
                /\ l \in ListenersOf(K, KeyOf(ev'.frame))]_vars

\* L1 received the first and the second frame, in that order; L2, which
\* registered between them, the second one alone.
C25_Witness ==
    /\ ev.op = "message"
    /\ got["L1"] = << <<1, "ticker">>, <<2, "ticker">> >>
    /\ got["L2"] = << <<2, "ticker">> >>

\* The handler entered makeAuthenticatedRequest for an order, which needs a
\* signature, while no credentials were stored.
OrderWithoutCredentials(e) ==
    /\ e.op \in {"call", "retry"}
    /\ e.api = "order"
    /\ e.key \notin {"offline", "invalid"}
    /\ ~creds

\* C26: a request that needs a signature, made while no credentials are
\* stored, fails with the credentials error before any other step: BanGuard
\* is left as it is (an expired ban is not cleared, an active one does not
\* answer), no marker is put in the pending-request map, no timestamp enters
\* the rate window and no fetch is issued.
C26_CredentialsFirst ==
    /\ [](OrderWithoutCredentials(ev)
            => /\ ev.err = "creds"
               /\ ev.net = 0
               /\ ev.slots = 0
               /\ ev.out \in {"backoff", "throw"})
    /\ [][OrderWithoutCredentials(ev')
            => /\ banInfo' = banInfo
               /\ storage' = storage
               /\ pendingRequests' = pendingRequests
               /\ requestTimestamps' = requestTimestamps]_vars

\* An order was tried without credentials while a ban was active, and it
\* failed with the credentials error.
C26_Witness ==
    /\ OrderWithoutCredentials(ev)
    /\ ev.banned
    /\ ev.err = "creds"
    /\ banInfo.isBanned

LiveCallFailed ==
    \/ ev.op = "response" /\ ev.resp.kind # "ok"
    \/ ev.op = "wait" /\ ev.waited \in {"timeout", "banned"}

\* C28: when the live call of getAccountInfo or getOrderHistory fails, for
\* whatever reason, and a cache entry exists, expired or not, the call
\* returns the data of the entry and does not throw.
C28_FailureFallsBack ==
    /\ (LiveCallFailed /\ ev.api = "account" /\ accountInfoCache.present)
          => ev.out = "fallback" /\ ev.ret = accountInfoCache.data
    /\ (LiveCallFailed /\ ev.api = "orders" /\ orderHistoryCache[ev.key].present)
          => ev.out = "fallback" /\ ev.ret = orderHistoryCache[ev.key].data

\* The ban state the persisted entry holds.
Persisted == [isBanned |-> storage.isBanned, banUntil |-> storage.banUntil]

\* C29: the persisted ban entry equals the ban state in memory after every
\* ban transition (a ban set, an expired ban cleared), so that an instance
\* constructed while a ban is active starts banned with the same banUntil
\* and one constructed after the ban has expired starts clear.
C29_PersistedEqualsMemory ==
    /\ [](IF storage.present THEN banInfo = Persisted ELSE banInfo = NoBan)
    /\ [][banInfo' # banInfo => storage' = Entry(banInfo')]_vars
    /\ [][ev'.op = "load"
            => IF banInfo.isBanned /\ now <= banInfo.banUntil
               THEN banInfo' = banInfo /\ checkIfBanned(Guard(banInfo', storage'), now)
               ELSE banInfo' = NoBan]_vars

\* An instance was constructed during a ban that a response had set in the
\* run before, and it is banned until the same time.
C29_Witness ==
    /\ ev.op = "load"
    /\ ev.banned
    /\ banInfo.isBanned
    /\ banInfo.banUntil >= twelveHoursMs
    /\ storage = Entry(banInfo)

\* An account listener is registered, credentials are stored, the
\* connection is open and no ban is active.
AccountStreamDue ==
    /\ accountSubscribers # {}
    /\ creds
    /\ isConnected
    /\ ~checkIfBanned(Guard(banInfo, storage), now)

\* C30: whenever an account listener is registered, credentials are stored,
\* the connection is open and no ban is active, a listen key is obtained in
\* the end (and the SUBSCRIBE for it is sent); so too when subscribeAccount is
\* first called on a connection that is already open and holds no key.
C30_ListenKeyObtained == AccountStreamDue ~> (listenKey # 0)

\* The frames of a sequence.
FramesOf(sent) == {sent[i] : i \in 1..Len(sent)}

\* C31: when a refresh call of the listen key fails, the key held is dropped
\* and a new one is asked for; once the new key is there the refresh
\* interval runs for it, and the account stream is subscribed on the wire
\* under the new key while account listeners are registered.
C31_RefreshFailureRecovers ==
    /\ [][\A r \in Reqs :
             (/\ req[r].api = "refresh"
              /\ req[r].pc \in {"inflight", "rateWait"}
              /\ req'[r] # req[r]
              /\ req'[r].pc # "rateWait"
              /\ ev'.err # "none")
                => listenKey' = 0 /\ ev'.out \in {"net", "rateWait"}]_vars
    /\ [](ev.op = "response" /\ ev.api = "listenKeyRetry" /\ ev.resp.kind = "ok"
            => /\ listenKey # 0
               /\ listenKeyInterval
               /\ (accountSubscribers # {} /\ isConnected)
                     => Frame("SUBSCRIBE", "listenKey") \in FramesOf(ev.sent))

\* How often a timestamp stands in the window.
Count(ts, x) == Cardinality({i \in 1..Len(ts) : ts[i] = x})

\* The timestamps of a window.
Stamps(ts) == {ts[i] : i \in 1..Len(ts)}

\* The number of timestamps a timed-out wait evicts from a window of n.
EvictCount(n) == IF n > Admissible - evictMargin THEN (n + 9) \div 10 ELSE 0

\* C32: a caller suspended for more than the maximum wait is rejected with
\* the timeout error, not admitted and with no timestamp recorded; the
\* window then loses its oldest 10 % (rounded up) when it holds more than
\* the admissible count less the margin, and nothing otherwise.  No other
\* step removes a timestamp that is younger than the window.
C32_EvictionOnTimeoutOnly ==
    /\ [](ev.op = "wait" /\ ev.waited = "timeout"
            => ev.net = 0 /\ ev.slots <= 0 /\ ev.err \in {"rateTimeout", "none"})
    /\ [][(ev'.op = "wait" /\ ev'.waited = "timeout")
            => /\ Len(requestTimestamps') =
                      Len(requestTimestamps) - EvictCount(Len(requestTimestamps))
               /\ \A x \in Stamps(requestTimestamps) :
                      /\ Count(requestTimestamps', x) <= Count(requestTimestamps, x)
                      /\ Count(requestTimestamps', x) < Count(requestTimestamps, x)
                            => \A y \in Stamps(requestTimestamps') : x <= y
               /\ Stamps(requestTimestamps') \subseteq Stamps(requestTimestamps)]_vars
    /\ [][~(ev'.op = "wait" /\ ev'.waited = "timeout")
            => \A x \in Stamps(requestTimestamps) :
                  Count(requestTimestamps', x) < Count(requestTimestamps, x)
                     => now - x >= REQUEST_WINDOW_MS]_vars

\* A wait has timed out on a full window and the oldest timestamp has been
\* evicted.
C32_Witness ==
    /\ ev.op = "wait"
    /\ ev.waited = "timeout"
    /\ ev.err = "rateTimeout"
    /\ ev.evicted = 1
    /\ Len(requestTimestamps) = Admissible - 1

\* C33: a call of getAccountInfo, getOpenPositions or getOrderHistory made
\* while BanGuard reports banned and the cache entry it reads is not fresh
\* issues no request, takes no slot and does not throw: the account call
\* returns the data of the expired entry, or the placeholder when there is
\* none; the positions call returns what that result holds; the order
\* history call returns the data of the expired entry of its symbol, or
\* the empty list.
C33_ServedWhileBanned ==
    /\ [][(/\ ev'.op = "call"
           /\ ev'.api \in {"account", "positions"}
           /\ ev'.banned
           /\ ~Fresh(accountInfoCache, now))
            => /\ ev'.net = 0
               /\ ev'.slots = 0
               /\ ev'.err = "none"
               /\ ev'.out # "throw"
               /\ req' = req
               /\ requestTimestamps' = requestTimestamps
               /\ ev'.api = "account"
                     => ev'.out = IF accountInfoCache.present THEN "stale" ELSE "mock"
               /\ ev'.ret = IF accountInfoCache.present
                            THEN accountInfoCache.data ELSE 0]_vars
    /\ [][(/\ ev'.op = "call"
           /\ ev'.api = "orders"
           /\ ev'.banned
           /\ ~Fresh(orderHistoryCache[ev'.key], now))
            => /\ ev'.net = 0
               /\ ev'.slots = 0
               /\ ev'.err = "none"
               /\ ev'.out = IF orderHistoryCache[ev'.key].present
                            THEN "stale" ELSE "empty"
               /\ req' = req
               /\ requestTimestamps' = requestTimestamps
               /\ ev'.ret = IF orderHistoryCache[ev'.key].present
                            THEN orderHistoryCache[ev'.key].data ELSE 0]_vars

\* getOpenPositions, called while banned with the account entry expired,
\* has returned the positions of the expired entry.
C33_Witness ==
    /\ ev.op = "call"
    /\ ev.api = "positions"
    /\ ev.banned
    /\ ev.out = "stale"
    /\ ev.net = 0
    /\ ev.ret = accountInfoCache.data
    /\ ev.ret # 0
    /\ ~Fresh(accountInfoCache, now)

\* The handler saw a response of status 418 or 429, or an error body that
\* speaks of a ban.
BanSignal ==
    /\ ev.op = "response"
    /\ ev.resp.kind = "http"
    /\ ev.resp.status \in {418, 429} \/ ev.resp.saysBanned \/ ev.resp.banT # 0

\* C34: BanGuard goes from clear to banned only in a handler that saw a
\* response of status 418 or 429 or an error body that speaks of a ban; a
\* request that fails in any other way (another HTTP status, the abort, a
\* network error, the timeout of the rate limiter) sets no ban, in memory or
\* in the persisted entry.
C34_BanOnlyOnSignal ==
    /\ [][(~banInfo.isBanned /\ banInfo'.isBanned) => BanSignal']_vars
    /\ [][(LiveCallFailed' /\ ~BanSignal')
            => /\ banInfo'.isBanned => banInfo' = banInfo
               /\ storage'.isBanned => storage' = storage]_vars

\* C35: while BanGuard holds an unexpired ban, no step moves banUntil to an
\* earlier time: a further ban signal leaves it where it is or moves it
\* later.
C35_BanUntilNeverEarlier ==
    [][(banInfo.isBanned /\ now <= banInfo.banUntil /\ banInfo'.isBanned)
          => banInfo'.banUntil >= banInfo.banUntil]_vars

\* C36: whenever the socket held is open, exactly one keepalive interval is
\* running: no event of a socket that was replaced or closed stops the
\* interval of the socket held, and no second interval is left running.
C36_OneKeepalive ==
    isConnected => (pings = 1 /\ pingInterval)

\* C37: whenever a listen key is held and the socket held is open, the
\* refresh interval of the listen key is running; so it is after a
\* disconnect() and a new connection with account listeners registered.
C37_HeldKeyIsRefreshed ==
    (listenKey # 0 /\ isConnected) => listenKeyInterval

\* The SUBSCRIBE frames for the listen key among the frames sent.
KeySubscribes(sent) ==
    Cardinality({i \in 1..Len(sent) : sent[i] = Frame("SUBSCRIBE", "listenKey")})

\* C38: the handler of a socket's open event that begins with a listen key
\* held and an account listener registered sends the SUBSCRIBE for the
\* account stream once, not twice.
C38_OneSubscribePerOpen ==
    (ev.op = "open" /\ ev.held /\ accountSubscribers # {})
        => KeySubscribes(ev.sent) = 1

\* C39: at every instant what getBanStatus() would report agrees with the
\* ban gate of the REST calls: isBanned is reported exactly when
\* checkIfBanned rejects, the instant now = banUntil included, and
\* remainingMinutes is 0 exactly when isBanned is reported false.
C39_StatusAgreesWithGate ==
    LET status == getBanStatus(S.g, now)
    IN  /\ status.isBanned <=> checkIfBanned(S.g, now)
        /\ status.remainingMinutes = 0 <=> ~status.isBanned

=============================================================================
